---- MODULE Spec2Model ----
(***************************************************************************)
(* A model of the feed-and-engagement data-access layer of the SNS         *)
(* application: the relational store (users, posts, likes, comments,       *)
(* comment_likes, follows) with its constraints, the route handlers of     *)
(* the mutation gateway, the feed paginator and the optimistic controls    *)
(* of the client.                                                          *)
(*                                                                         *)
(* Every route handler starts with the same prefix (Clerk auth, lookup of  *)
(* the caller's users row, parsing of the body).  The users table is never *)
(* written by any route, so the prefix is one step (.._Begin); from the    *)
(* first statement on a table that routes do write, every awaited store    *)
(* statement is a step of its own, taken by the request held in a slot of  *)
(* inflight, so that requests interleave exactly at their awaits.          *)
(***************************************************************************)
EXTENDS Integers, Sequences, FiniteSets, TLC

VARIABLES
    posts,          \* public.posts: set of rows [id, user_id, image_url]
    comments,       \* public.comments: set of rows [id, post_id, user_id, content]
    likes,          \* public.likes: number of rows per <<post_id, user_id>>
    comment_likes,  \* public.comment_likes: number of rows per <<comment_id, user_id>>
    follows,        \* public.follows: number of rows per <<follower_id, following_id>>
    blobs,          \* storage bucket "posts": set of stored image paths
    sequence,       \* number of ids the store has issued to the rows the behaviour's
                    \* routes insert (comments, or posts); ids are never reused
    feed,           \* the PostFeed component: its state and the fetch it awaits
    ui,             \* the optimistic control on screen and the fetch it awaits
    inflight,       \* the requests being handled, one per slot
    last,           \* the response the latest step returned, with its request, if any
    route           \* the route module that serves the behaviour's requests

store == <<posts, comments, likes, comment_likes, follows, blobs, sequence>>
vars == <<posts, comments, likes, comment_likes, follows, blobs, sequence, feed, ui,
          inflight, last, route>>

---------------------------------------------------------------------------
(* Bounds of the model *)

MaxPosts == 1
MaxComments == 1
MaxInFlight == 2
MaxBlobs == 2

PostIds == 1..MaxPosts
CommentIds == 1..MaxComments
Slots == 1..MaxInFlight

---------------------------------------------------------------------------
(* Identity: Clerk principals and the rows of public.users *)

Users == {1, 2}
NoUser == 0
GhostUser == 9
NoId == 0
Principals == {"k1", "k2", "k3"}
NoPrincipal == "anon"

\* users.select("id").eq("clerk_id", clerkUserId).single()
ResolveUser(clerkUserId) ==
    CASE clerkUserId = "k1" -> 1
      [] clerkUserId = "k2" -> 2
      [] OTHER -> NoUser

\* users.clerk_id of a users row
ClerkIdOf(user_id) ==
    CASE user_id = 1 -> "k1"
      [] user_id = 2 -> "k2"
      [] OTHER -> NoPrincipal

\* The requests of a behaviour: the gateway behaviours draw every caller and every
\* body, the content, session and control behaviours follow signed-in callers that
\* name an id
SignedIn == route \in {"content", "session", "LikeButton"}
Callers == IF SignedIn THEN {"k1", "k2"} ELSE Principals \cup {NoPrincipal}
Readers == IF SignedIn THEN Principals ELSE Principals \cup {NoPrincipal}
Named(ids) == IF SignedIn THEN ids ELSE ids \cup {NoId}

---------------------------------------------------------------------------
(* Responses *)

NoCode == "-"
PgNone == "none"
PgUnique == "23505"
PgForeignKey == "23503"
PgCheck == "23514"
PgOutage == "08006"
PgNoRows == "PGRST116"

\* StorageError: the storage API refused or failed the call
StorageError == "storage"

Response(status, code) == [status |-> status, code |-> code]
Rejected(status, code) == [ok |-> FALSE, resp |-> Response(status, code)]
Passed == [ok |-> TRUE, resp |-> Response(0, NoCode)]

IsSuccess(status) == status >= 200 /\ status < 300

\* The content of a request body, by what a handler looks at: its type, its length
\* and the length of content.trim(); NoBody is a body without content
NoBody == [isString |-> FALSE, length |-> 0, trimmed |-> 0]

\* formData.get("image"): a file by its type and size, or none
NoImage == [type |-> "none", size |-> 0]

\* A string of n characters with blank of them at its ends
String(n, blank) == [isString |-> TRUE, length |-> n, trimmed |-> n - blank]

\* content.trim()
Trim(content) == String(content.trimmed, 0)

\* A slot holds the locals of one handler invocation: the resolved user, the id the
\* request names, the awaited statement it stands before, what it has fetched
\* (image: the storage path of the image; rows: the rows of its select) and the
\* content of its body.
Idle == [op |-> "idle", user |-> NoUser, target |-> NoId, pc |-> "idle",
         image |-> NoId, rows |-> {}, body |-> NoBody, file |-> NoImage]
NoRequest == [op |-> "none", principal |-> NoPrincipal, user |-> NoUser, target |-> NoId,
              status |-> 0, code |-> NoCode, pg |-> PgNone, items |-> {},
              body |-> NoBody, file |-> NoImage]

\* A response with the request it answers: the Clerk principal, the users row it
\* resolved to, the id it named, its content
Respond(op, clerkUserId, target, resp, pg, body) ==
    [op |-> op, principal |-> clerkUserId, user |-> ResolveUser(clerkUserId),
     target |-> target, status |-> resp.status, code |-> resp.code, pg |-> pg,
     items |-> {}, body |-> body, file |-> NoImage]

Answer(op, user, target, resp, pg) ==
    Respond(op, ClerkIdOf(user), target, resp, pg, NoBody)

\* A step that returns no response
Silent == last' = NoRequest

FreeSlots == {s \in Slots : inflight[s].op = "idle"}
FirstFree == CHOOSE s \in FreeSlots : \A t \in FreeSlots : s <= t

AdmitFile(op, user, target, pc, body, file) ==
    /\ FreeSlots # {}
    /\ inflight' = [inflight EXCEPT ![FirstFree] =
          [op |-> op, user |-> user, target |-> target, pc |-> pc,
           image |-> NoId, rows |-> {}, body |-> body, file |-> file]]
    /\ Silent

AdmitBody(op, user, target, pc, body) == AdmitFile(op, user, target, pc, body, NoImage)

Admit(op, user, target, pc) == AdmitBody(op, user, target, pc, NoBody)

\* An early return; a request turned away before its body is parsed (401, 404 of the
\* users lookup) names no target and no content yet
RejectBody(op, clerkUserId, target, resp, body) ==
    LET parsed == ResolveUser(clerkUserId) # NoUser
    IN  /\ last' = Respond(op, clerkUserId, IF parsed THEN target ELSE NoId, resp, PgNone,
                           IF parsed /\ target # NoId THEN body ELSE NoBody)
        /\ UNCHANGED inflight

Reject(op, clerkUserId, target, resp) == RejectBody(op, clerkUserId, target, resp, NoBody)

Finish(s, resp, pg) ==
    /\ last' = [Respond(inflight[s].op, ClerkIdOf(inflight[s].user), inflight[s].target,
                        resp, pg, inflight[s].body) EXCEPT !.file = inflight[s].file]
    /\ inflight' = [inflight EXCEPT ![s] = Idle]

\* The step is one of the request held in slot s
StepOf(s) == inflight'[s] # inflight[s]

---------------------------------------------------------------------------
(* The relational store: constraints of the tables *)

PostExists(post_id) == \E p \in posts : p.id = post_id
CommentExists(comment_id) == \E c \in comments : c.id = comment_id

\* A table declared without its UNIQUE constraint.
UniqueViolation_Missing(rows) == FALSE

\* UNIQUE(post_id, user_id), UNIQUE(comment_id, user_id), UNIQUE(follower_id, following_id)
UniqueViolation(rows) == rows >= 1

\* likes.insert: REFERENCES posts(id), REFERENCES users(id), UNIQUE(post_id, user_id)
InsertLikeError(post_id, user_id) ==
    IF ~PostExists(post_id) \/ user_id \notin Users THEN PgForeignKey
    ELSE IF UniqueViolation(likes[<<post_id, user_id>>]) THEN PgUnique
    ELSE PgNone

\* comment_likes.insert: REFERENCES comments(id), REFERENCES users(id), UNIQUE(comment_id, user_id)
InsertCommentLikeError(comment_id, user_id) ==
    IF ~CommentExists(comment_id) \/ user_id \notin Users THEN PgForeignKey
    ELSE IF UniqueViolation(comment_likes[<<comment_id, user_id>>]) THEN PgUnique
    ELSE PgNone

\* follows.insert: REFERENCES users(id) twice, UNIQUE(follower_id, following_id),
\* CHECK (follower_id != following_id)
InsertFollowError(follower_id, following_id) ==
    IF follower_id \notin Users \/ following_id \notin Users THEN PgForeignKey
    ELSE IF follower_id = following_id THEN PgCheck
    ELSE IF UniqueViolation(follows[<<follower_id, following_id>>]) THEN PgUnique
    ELSE PgNone

AddRow(table, key) == [table EXCEPT ![key] = @ + 1]

\* A delete that must match one row, as a query ending in .single() would.
DeleteError_Single(rows) == IF rows = 0 THEN PgNoRows ELSE PgNone

\* delete().eq(..).eq(..): a delete that matches no row is no error
DeleteError(rows) == PgNone

\* the rows a table holds under a key
RowsOf(table, key) == IF key \in DOMAIN table THEN table[key] ELSE 0
\* delete().eq(..).eq(..): removes every row of the key, none if there is none
DeleteRows(table, key) ==
    IF key \in DOMAIN table THEN [table EXCEPT ![key] = 0] ELSE table

\* likes.post_id REFERENCES posts(id) ON DELETE CASCADE
CascadeLikes(table, post_id) ==
    [k \in DOMAIN table |-> IF k[1] = post_id THEN 0 ELSE table[k]]

\* A comments table declared without ON DELETE CASCADE on post_id.
CascadeComments_Missing(rows, post_id) == rows

\* comments.post_id REFERENCES posts(id) ON DELETE CASCADE
CascadeComments(rows, post_id) == {c \in rows : c.post_id # post_id}

\* comment_likes.comment_id REFERENCES comments(id) ON DELETE CASCADE
CascadeCommentLikes(table, removed) ==
    [k \in DOMAIN table |-> IF k[1] \in removed THEN 0 ELSE table[k]]

PostRow(post_id) == CHOOSE p \in posts : p.id = post_id
CommentRow(comment_id) == CHOOSE c \in comments : c.id = comment_id
CommentsOf(post_id) == {c.id : c \in {d \in comments : d.post_id = post_id}}

---------------------------------------------------------------------------
(* The storage bucket "posts" *)

\* storage.from("posts").getPublicUrl(path): .../storage/v1/object/public/posts/<path>
PublicUrl(path) == <<"/storage/v1/object/public/posts/", path>>

\* the path after /storage/v1/object/public/posts/, null for any other URL
extractStoragePath(imageUrl) ==
    IF imageUrl[1] = "/storage/v1/object/public/posts/" THEN imageUrl[2] ELSE NoId

---------------------------------------------------------------------------
(* The prefix shared by the routes *)

\* A prefix that answers a principal without a users row as it answers no principal.
Prefix_OneRefusal(clerkUserId, id, idCode, coded) ==
    IF clerkUserId = NoPrincipal \/ ResolveUser(clerkUserId) = NoUser
      THEN Rejected(401, IF coded THEN "UNAUTHORIZED" ELSE NoCode)
    ELSE IF id = NoId
      THEN Rejected(400, IF coded THEN idCode ELSE NoCode)
    ELSE Passed

\* auth(); users lookup; the id the body must carry
Prefix(clerkUserId, id, idCode, coded) ==
    IF clerkUserId = NoPrincipal
      THEN Rejected(401, IF coded THEN "UNAUTHORIZED" ELSE NoCode)
    ELSE IF ResolveUser(clerkUserId) = NoUser
      THEN Rejected(404, IF coded THEN "USER_NOT_FOUND" ELSE NoCode)
    ELSE IF id = NoId
      THEN Rejected(400, IF coded THEN idCode ELSE NoCode)
    ELSE Passed

---------------------------------------------------------------------------
(* POST /api/likes, DELETE /api/likes *)

\* A handler that takes the actor from the request body.
LikeRowUser_FromBody(currentUserId, bodyUserId) == bodyUserId

\* insert({ post_id, user_id: currentUserId }): the body's own fields are not read
LikeRowUser(currentUserId, bodyUserId) == currentUserId

LikesPOST_Response(pg) ==
    IF pg # PgNone THEN Response(500, "ADD_LIKE_ERROR") ELSE Response(201, NoCode)

LikesPOST_Begin ==
    \E clerkUserId \in Callers, post_id \in Named(PostIds) :
        LET pre == Prefix(clerkUserId, post_id, "POST_ID_REQUIRED", TRUE)
            user == ResolveUser(clerkUserId)
        IN  /\ UNCHANGED store
            /\ IF pre.ok THEN Admit("likes_POST", user, post_id, "insert")
                         ELSE Reject("likes_POST", clerkUserId, post_id, pre.resp)

LikesPOST_Insert(s) ==
    /\ inflight[s].op = "likes_POST" /\ inflight[s].pc = "insert"
    /\ \E dbUp \in BOOLEAN, bodyUserId \in Users :
        LET user_id == LikeRowUser(inflight[s].user, bodyUserId)
            post_id == inflight[s].target
            pg == IF dbUp THEN InsertLikeError(post_id, user_id) ELSE PgOutage
        IN  /\ likes' = IF pg = PgNone THEN AddRow(likes, <<post_id, user_id>>) ELSE likes
            /\ Finish(s, LikesPOST_Response(pg), pg)
    /\ UNCHANGED <<posts, comments, comment_likes, follows, blobs, sequence>>

LikesDELETE_Response(pg) ==
    IF pg # PgNone THEN Response(500, "REMOVE_LIKE_ERROR") ELSE Response(200, NoCode)

LikesDELETE_Begin ==
    \E clerkUserId \in Callers, post_id \in Named(PostIds) :
        LET pre == Prefix(clerkUserId, post_id, "POST_ID_REQUIRED", TRUE)
            user == ResolveUser(clerkUserId)
        IN  /\ UNCHANGED store
            /\ IF pre.ok THEN Admit("likes_DELETE", user, post_id, "delete")
                         ELSE Reject("likes_DELETE", clerkUserId, post_id, pre.resp)

LikesDELETE_Delete(s) ==
    /\ inflight[s].op = "likes_DELETE" /\ inflight[s].pc = "delete"
    /\ \E dbUp \in BOOLEAN, bodyUserId \in Users :
        LET user_id == LikeRowUser(inflight[s].user, bodyUserId)
            post_id == inflight[s].target
            pg == IF dbUp THEN DeleteError(RowsOf(likes, <<post_id, user_id>>)) ELSE PgOutage
        IN  /\ likes' = IF pg = PgNone THEN DeleteRows(likes, <<post_id, user_id>>) ELSE likes
            /\ Finish(s, LikesDELETE_Response(pg), pg)
    /\ UNCHANGED <<posts, comments, comment_likes, follows, blobs, sequence>>

---------------------------------------------------------------------------
(* POST /api/comment-likes, DELETE /api/comment-likes *)

\* insert({ comment_id, user_id: currentUserId })
CommentLikeRowUser(currentUserId, bodyUserId) == currentUserId

CommentLikesPOST_Response(pg) ==
    IF pg # PgNone THEN Response(500, NoCode) ELSE Response(201, NoCode)

CommentLikesPOST_Begin ==
    \E clerkUserId \in Callers, comment_id \in Named(CommentIds) :
        LET pre == Prefix(clerkUserId, comment_id, NoCode, FALSE)
            user == ResolveUser(clerkUserId)
        IN  /\ UNCHANGED store
            /\ IF pre.ok THEN Admit("comment_likes_POST", user, comment_id, "insert")
                         ELSE Reject("comment_likes_POST", clerkUserId, comment_id, pre.resp)

CommentLikesPOST_Insert(s) ==
    /\ inflight[s].op = "comment_likes_POST" /\ inflight[s].pc = "insert"
    /\ \E dbUp \in BOOLEAN, bodyUserId \in Users :
        LET user_id == CommentLikeRowUser(inflight[s].user, bodyUserId)
            comment_id == inflight[s].target
            pg == IF dbUp THEN InsertCommentLikeError(comment_id, user_id) ELSE PgOutage
        IN  /\ comment_likes' = IF pg = PgNone
                                  THEN AddRow(comment_likes, <<comment_id, user_id>>)
                                  ELSE comment_likes
            /\ Finish(s, CommentLikesPOST_Response(pg), pg)
    /\ UNCHANGED <<posts, comments, likes, follows, blobs, sequence>>

CommentLikesDELETE_Response(pg) ==
    IF pg # PgNone THEN Response(500, NoCode) ELSE Response(200, NoCode)

CommentLikesDELETE_Begin ==
    \E clerkUserId \in Callers, comment_id \in Named(CommentIds) :
        LET pre == Prefix(clerkUserId, comment_id, NoCode, FALSE)
            user == ResolveUser(clerkUserId)
        IN  /\ UNCHANGED store
            /\ IF pre.ok THEN Admit("comment_likes_DELETE", user, comment_id, "delete")
                         ELSE Reject("comment_likes_DELETE", clerkUserId, comment_id, pre.resp)

CommentLikesDELETE_Delete(s) ==
    /\ inflight[s].op = "comment_likes_DELETE" /\ inflight[s].pc = "delete"
    /\ \E dbUp \in BOOLEAN, bodyUserId \in Users :
        LET user_id == CommentLikeRowUser(inflight[s].user, bodyUserId)
            comment_id == inflight[s].target
            pg == IF dbUp THEN DeleteError(RowsOf(comment_likes, <<comment_id, user_id>>)) ELSE PgOutage
        IN  /\ comment_likes' = IF pg = PgNone
                                  THEN DeleteRows(comment_likes, <<comment_id, user_id>>)
                                  ELSE comment_likes
            /\ Finish(s, CommentLikesDELETE_Response(pg), pg)
    /\ UNCHANGED <<posts, comments, likes, follows, blobs, sequence>>

---------------------------------------------------------------------------
(* POST /api/follows, DELETE /api/follows *)

\* insert({ follower_id: currentUserId, following_id }), .eq("follower_id", currentUserId)
FollowRowFollower(currentUserId, bodyUserId) == currentUserId

\* if (currentUserId === following_id)
SelfFollow(currentUserId, following_id) == currentUserId = following_id

\* the checks of POST /api/follows between the prefix and the insert
FollowsPOST_Checks(currentUserId, following_id) ==
    IF SelfFollow(currentUserId, following_id)
      THEN Rejected(400, "SELF_FOLLOW_NOT_ALLOWED")
    ELSE IF following_id \notin Users
      THEN Rejected(404, "USER_NOT_FOUND")
    ELSE Passed

\* A handler of POST /api/follows that reports the duplicate as a failure.
FollowsPOST_Response_Surfaced(pg) ==
    IF pg # PgNone THEN Response(500, "ADD_FOLLOW_ERROR") ELSE Response(201, NoCode)

FollowsPOST_Response(pg) ==
    IF pg = PgUnique THEN Response(200, NoCode)
    ELSE IF pg # PgNone THEN Response(500, "ADD_FOLLOW_ERROR")
    ELSE Response(201, NoCode)

FollowsPOST_Begin ==
    \E clerkUserId \in Callers,
       following_id \in Named(Users \cup {GhostUser}) :
        LET pre == Prefix(clerkUserId, following_id, "FOLLOWING_ID_REQUIRED", TRUE)
            user == ResolveUser(clerkUserId)
            chk == IF pre.ok THEN FollowsPOST_Checks(user, following_id) ELSE pre
        IN  /\ UNCHANGED store
            /\ IF chk.ok THEN Admit("follows_POST", user, following_id, "insert")
                         ELSE Reject("follows_POST", clerkUserId, following_id, chk.resp)

FollowsPOST_Insert(s) ==
    /\ inflight[s].op = "follows_POST" /\ inflight[s].pc = "insert"
    /\ \E dbUp \in BOOLEAN, bodyUserId \in Users :
        LET follower_id == FollowRowFollower(inflight[s].user, bodyUserId)
            following_id == inflight[s].target
            pg == IF dbUp THEN InsertFollowError(follower_id, following_id) ELSE PgOutage
        IN  /\ follows' = IF pg = PgNone
                            THEN AddRow(follows, <<follower_id, following_id>>)
                            ELSE follows
            /\ Finish(s, FollowsPOST_Response(pg), pg)
    /\ UNCHANGED <<posts, comments, likes, comment_likes, blobs, sequence>>

FollowsDELETE_Response(pg) ==
    IF pg # PgNone THEN Response(500, "REMOVE_FOLLOW_ERROR") ELSE Response(200, NoCode)

FollowsDELETE_Begin ==
    \E clerkUserId \in Callers,
       following_id \in Named(Users \cup {GhostUser}) :
        LET pre == Prefix(clerkUserId, following_id, "FOLLOWING_ID_REQUIRED", TRUE)
            user == ResolveUser(clerkUserId)
        IN  /\ UNCHANGED store
            /\ IF pre.ok THEN Admit("follows_DELETE", user, following_id, "delete")
                         ELSE Reject("follows_DELETE", clerkUserId, following_id, pre.resp)

FollowsDELETE_Delete(s) ==
    /\ inflight[s].op = "follows_DELETE" /\ inflight[s].pc = "delete"
    /\ \E dbUp \in BOOLEAN, bodyUserId \in Users :
        LET follower_id == FollowRowFollower(inflight[s].user, bodyUserId)
            following_id == inflight[s].target
            pg == IF dbUp THEN DeleteError(RowsOf(follows, <<follower_id, following_id>>)) ELSE PgOutage
        IN  /\ follows' = IF pg = PgNone
                            THEN DeleteRows(follows, <<follower_id, following_id>>)
                            ELSE follows
            /\ Finish(s, FollowsDELETE_Response(pg), pg)
    /\ UNCHANGED <<posts, comments, likes, comment_likes, blobs, sequence>>

---------------------------------------------------------------------------
(* The engagement ledger: the like, comment-like and follow routes over a   *)
(* store that holds one post and one comment on it.  Each of the three      *)
(* route modules reads and writes its own table only, so a behaviour        *)
(* follows the requests of one of them, drawn in the initial state.         *)

EmptyLedger ==
    /\ likes = [k \in PostIds \X Users |-> 0]
    /\ comment_likes = [k \in CommentIds \X Users |-> 0]
    /\ follows = [k \in Users \X Users |-> 0]

\* No component is on screen
NoFeed == [stage |-> "unmounted"]
NoControl == [control |-> "none"]

GatewayIdle ==
    /\ inflight = [s \in Slots |-> Idle]
    /\ last = NoRequest

NoClient ==
    /\ feed = NoFeed
    /\ ui = NoControl

InitEdge ==
    /\ posts = {[id |-> 1, user_id |-> 1, image_url |-> PublicUrl(1), caption |-> NoBody]}
    /\ blobs = {1}
    /\ comments = {[id |-> 1, post_id |-> 1, user_id |-> 1, content |-> String(1, 0)]}
    /\ sequence = 1
    /\ EmptyLedger
    /\ GatewayIdle
    /\ NoClient
    /\ route \in {"likes", "comment-likes", "follows"}

\* A step of the route module r; the routes do not touch the components
Serve(r, step) == route = r /\ step /\ UNCHANGED <<route, feed, ui>>

NextEdge ==
    \/ Serve("likes", LikesPOST_Begin)
    \/ Serve("likes", \E s \in Slots : LikesPOST_Insert(s))
    \/ Serve("likes", LikesDELETE_Begin)
    \/ Serve("likes", \E s \in Slots : LikesDELETE_Delete(s))
    \/ Serve("comment-likes", CommentLikesPOST_Begin)
    \/ Serve("comment-likes", \E s \in Slots : CommentLikesPOST_Insert(s))
    \/ Serve("comment-likes", CommentLikesDELETE_Begin)
    \/ Serve("comment-likes", \E s \in Slots : CommentLikesDELETE_Delete(s))
    \/ Serve("follows", FollowsPOST_Begin)
    \/ Serve("follows", \E s \in Slots : FollowsPOST_Insert(s))
    \/ Serve("follows", FollowsDELETE_Begin)
    \/ Serve("follows", \E s \in Slots : FollowsDELETE_Delete(s))

SpecEdge == InitEdge /\ [][NextEdge]_vars

---------------------------------------------------------------------------
(* Properties of the engagement ledger *)

AddOps == {"likes_POST", "comment_likes_POST", "follows_POST"}
RemoveOps == {"likes_DELETE", "comment_likes_DELETE", "follows_DELETE"}

\* The rows of the edge a finished request named: (actor, target)
EdgeRows(op, user, target) ==
    CASE op \in {"likes_POST", "likes_DELETE"} ->
           IF <<target, user>> \in DOMAIN likes THEN likes[<<target, user>>] ELSE 0
      [] op \in {"comment_likes_POST", "comment_likes_DELETE"} ->
           IF <<target, user>> \in DOMAIN comment_likes
             THEN comment_likes[<<target, user>>] ELSE 0
      [] op \in {"follows_POST", "follows_DELETE"} ->
           IF <<user, target>> \in DOMAIN follows THEN follows[<<user, target>>] ELSE 0
      [] OTHER -> 0

\* C1: a like-add (POST /api/likes, POST /api/comment-likes) whose edge is already
\* present leaves exactly the one row there was and is answered with success.
C1_RepeatedAddIsSuccess ==
    (last.op \in {"likes_POST", "comment_likes_POST"} /\ last.pg = PgUnique)
        => /\ EdgeRows(last.op, last.user, last.target) = 1
           /\ IsSuccess(last.status)

\* C2: at most one likes row per (post_id, user_id), one comment_likes row per
\* (comment_id, user_id) and one follows row per (follower_id, following_id), in every
\* state and under every interleaving of the requests in flight; right after an add
\* that inserted or was refused as a duplicate, exactly one row of the pair exists.
C2_AtMostOneRowPerPair ==
    /\ \A k \in DOMAIN likes : likes[k] <= 1
    /\ \A k \in DOMAIN comment_likes : comment_likes[k] <= 1
    /\ \A k \in DOMAIN follows : follows[k] <= 1
    /\ (last.op \in AddOps /\ (IsSuccess(last.status) \/ last.pg = PgUnique))
          => EdgeRows(last.op, last.user, last.target) = 1

\* C2 witness: a duplicate insert was attempted and refused, and one row survives.
C2_Witness ==
    /\ last.op \in AddOps
    /\ last.pg = PgUnique
    /\ EdgeRows(last.op, last.user, last.target) = 1

\* C3: a follow request whose following_id is the caller's own id is answered with
\* SELF_FOLLOW_NOT_ALLOWED, for POST and for DELETE (while the store is reachable).
C3_SelfFollowAlwaysRejected ==
    (/\ last.op \in {"follows_POST", "follows_DELETE"}
     /\ last.user # NoUser
     /\ last.target = last.user
     /\ last.pg # PgOutage)
        => (last.status = 400 /\ last.code = "SELF_FOLLOW_NOT_ALLOWED")

\* C10: the statement of a like, comment-like or follow request changes no edge whose
\* actor is another user than the one the request's principal resolves to.
C10_OnlyOwnEdges ==
    [][\A s \in Slots :
          (inflight[s].op \in AddOps \cup RemoveOps /\ inflight'[s].op = "idle") =>
              /\ \A k \in DOMAIN likes : k[2] # inflight[s].user => likes'[k] = likes[k]
              /\ \A k \in DOMAIN comment_likes :
                     k[2] # inflight[s].user => comment_likes'[k] = comment_likes[k]
              /\ \A k \in DOMAIN follows :
                     k[1] # inflight[s].user => follows'[k] = follows[k]]_vars

\* C10 witness: user 1 removed its like of post 1 while user 2's like of it stays.
C10_Witness ==
    /\ last.op = "likes_DELETE" /\ last.user = 1 /\ last.target = 1
    /\ IsSuccess(last.status)
    /\ likes[<<1, 2>>] = 1 /\ likes[<<1, 1>>] = 0

\* C13: a remove (DELETE /api/likes, DELETE /api/comment-likes, DELETE /api/follows)
\* whose statement runs while the (actor, target) edge is absent is answered with
\* success and leaves the store as it was (while the store is reachable).
C13_RemoveWhileAbsentIsNoOp ==
    [][\A s \in Slots :
          (/\ inflight[s].op \in RemoveOps /\ inflight'[s].op = "idle"
           /\ EdgeRows(inflight[s].op, inflight[s].user, inflight[s].target) = 0
           /\ last'.pg # PgOutage)
              => /\ IsSuccess(last'.status)
                 /\ UNCHANGED store]_vars

\* C13 witness: the unfollow of a user id that no users row carries, whose edge the
\* store can never hold, has just been answered 200.
C13_Witness ==
    /\ last.op = "follows_DELETE" /\ last.target = GhostUser
    /\ last.status = 200
    /\ EdgeRows(last.op, last.user, last.target) = 0

\* C14: every POST /api/follows whose insert the store accepted or refused as a
\* duplicate (23505) is answered with success, in sequence or racing with another
\* add of the same pair, and exactly one follows row of the pair exists then.
C14_DuplicateFollowIsSuccess ==
    [][\A s \in Slots :
          (/\ inflight[s].op = "follows_POST" /\ inflight'[s].op = "idle"
           /\ last'.pg \in {PgNone, PgUnique})
              => /\ IsSuccess(last'.status)
                 /\ follows'[<<inflight[s].user, inflight[s].target>>] = 1]_vars

\* C14 witness: the insert of a follow was refused as a duplicate and answered 200.
C14_Witness ==
    /\ last.op = "follows_POST" /\ last.pg = PgUnique
    /\ last.status = 200
    /\ follows[<<last.user, last.target>>] = 1

---------------------------------------------------------------------------
(* POST /api/comments, DELETE /api/comments, GET /api/comments *)

MAX_COMMENT_LENGTH == 1000

\* The contents a body carries: none, the empty string, blanks only, and strings
\* around the limit with and without blanks at their ends
Contents ==
    {NoBody, String(0, 0), String(2, 2), String(2, 1),
     String(MAX_COMMENT_LENGTH, 0), String(MAX_COMMENT_LENGTH, 1),
     String(MAX_COMMENT_LENGTH + 1, 0), String(MAX_COMMENT_LENGTH + 1, 1),
     String(MAX_COMMENT_LENGTH + 2, 1)}

\* The contents of the requests of a behaviour: the content behaviours follow
\* requests with one content that passes the checks
Bodies == IF SignedIn THEN {String(2, 1)} ELSE Contents

\* the checks of POST /api/comments on content
CommentsPOST_Checks(content) ==
    IF ~content.isString \/ content.length = 0 \/ content.trimmed = 0
      THEN Rejected(400, "CONTENT_REQUIRED")
    ELSE IF content.length > MAX_COMMENT_LENGTH
      THEN Rejected(400, "CONTENT_TOO_LONG")
    ELSE Passed

\* comments.insert: REFERENCES posts(id), REFERENCES users(id)
InsertCommentError(post_id, user_id) ==
    IF ~PostExists(post_id) \/ user_id \notin Users THEN PgForeignKey ELSE PgNone

CommentsPOST_Response(pg) ==
    IF pg # PgNone THEN Response(500, "CREATE_COMMENT_ERROR") ELSE Response(201, NoCode)

\* the comment ids the store can still issue to the inserts in flight
IdsLeft ==
    MaxComments - sequence - Cardinality({s \in Slots : inflight[s].op = "comments_POST"})

CommentsPOST_Begin ==
    \E clerkUserId \in Callers, post_id \in Named(PostIds),
       content \in Bodies :
        LET pre == Prefix(clerkUserId, post_id, "POST_ID_REQUIRED", TRUE)
            user == ResolveUser(clerkUserId)
            chk == IF pre.ok THEN CommentsPOST_Checks(content) ELSE pre
        IN  /\ UNCHANGED store
            /\ IF chk.ok
                 THEN /\ IdsLeft > 0
                      /\ AdmitBody("comments_POST", user, post_id, "insert", content)
                 ELSE RejectBody("comments_POST", clerkUserId, post_id, chk.resp, content)

CommentsPOST_Insert(s) ==
    /\ inflight[s].op = "comments_POST" /\ inflight[s].pc = "insert"
    /\ \E dbUp \in BOOLEAN :
        LET user_id == inflight[s].user
            post_id == inflight[s].target
            pg == IF dbUp THEN InsertCommentError(post_id, user_id) ELSE PgOutage
            row == [id |-> sequence + 1, post_id |-> post_id, user_id |-> user_id,
                    content |-> Trim(inflight[s].body)]
        IN  /\ comments' = IF pg = PgNone THEN comments \cup {row} ELSE comments
            /\ sequence' = IF pg = PgNone THEN sequence + 1 ELSE sequence
            /\ Finish(s, CommentsPOST_Response(pg), pg)
    /\ UNCHANGED <<posts, likes, comment_likes, follows, blobs>>

\* A handler that lets any signed-in user delete a comment.
IsCommentAuthor_Anyone(comment_user_id, currentUserId) == TRUE

\* comment.user_id !== currentUserId
IsCommentAuthor(comment_user_id, currentUserId) == comment_user_id = currentUserId

CommentsDELETE_Response(pg) ==
    IF pg # PgNone THEN Response(500, "DELETE_COMMENT_ERROR") ELSE Response(200, NoCode)

CommentsDELETE_Begin ==
    \E clerkUserId \in Callers, comment_id \in Named(CommentIds) :
        LET pre == Prefix(clerkUserId, comment_id, "COMMENT_ID_REQUIRED", TRUE)
            user == ResolveUser(clerkUserId)
        IN  /\ UNCHANGED store
            /\ IF pre.ok THEN Admit("comments_DELETE", user, comment_id, "select")
                         ELSE Reject("comments_DELETE", clerkUserId, comment_id, pre.resp)

\* select("user_id").eq("id", comment_id).single(), then the author check
CommentsDELETE_Select(s) ==
    /\ inflight[s].op = "comments_DELETE" /\ inflight[s].pc = "select"
    /\ \E dbUp \in BOOLEAN :
        LET comment_id == inflight[s].target
        IN  IF ~dbUp \/ ~CommentExists(comment_id)
              THEN Finish(s, Response(404, "COMMENT_NOT_FOUND"),
                          IF dbUp THEN PgNone ELSE PgOutage)
            ELSE IF ~IsCommentAuthor(CommentRow(comment_id).user_id, inflight[s].user)
              THEN Finish(s, Response(403, "FORBIDDEN"), PgNone)
            ELSE /\ inflight' = [inflight EXCEPT ![s].pc = "delete"]
                 /\ Silent
    /\ UNCHANGED store

\* delete().eq("id", comment_id), with the cascade to comment_likes
CommentsDELETE_Delete(s) ==
    /\ inflight[s].op = "comments_DELETE" /\ inflight[s].pc = "delete"
    /\ \E dbUp \in BOOLEAN :
        LET comment_id == inflight[s].target
            pg == IF dbUp THEN PgNone ELSE PgOutage
        IN  /\ comments' = IF pg = PgNone THEN {c \in comments : c.id # comment_id}
                                          ELSE comments
            /\ comment_likes' = IF pg = PgNone /\ CommentExists(comment_id)
                                  THEN CascadeCommentLikes(comment_likes, {comment_id})
                                  ELSE comment_likes
            /\ Finish(s, CommentsDELETE_Response(pg), pg)
    /\ UNCHANGED <<posts, likes, follows, blobs, sequence>>

\* the list a finished read returned
FinishList(s, resp, items) ==
    /\ last' = [Answer(inflight[s].op, inflight[s].user, inflight[s].target, resp, PgNone)
                  EXCEPT !.items = items]
    /\ inflight' = [inflight EXCEPT ![s] = Idle]

\* GET /api/comments: a caller without a users row is served too (currentUser?.id)
CommentsGET_Begin ==
    \E clerkUserId \in Readers, postId \in Named(PostIds) :
        LET user == ResolveUser(clerkUserId)
        IN  /\ UNCHANGED store
            /\ IF clerkUserId = NoPrincipal
                 THEN Reject("comments_GET", clerkUserId, postId, Response(401, "UNAUTHORIZED"))
               ELSE IF postId = NoId
                 THEN Reject("comments_GET", clerkUserId, postId, Response(400, "POST_ID_REQUIRED"))
               ELSE Admit("comments_GET", user, postId, "select")

\* comments.select(..).eq("post_id", postId).order(..).range(offset, offset + limit - 1)
\* with the default limit of 10, which no post of the model exceeds
CommentsGET_Select(s) ==
    /\ inflight[s].op = "comments_GET" /\ inflight[s].pc = "select"
    /\ \E dbUp \in BOOLEAN :
        LET commentIds == CommentsOf(inflight[s].target)
        IN  IF ~dbUp
              THEN Finish(s, Response(500, "FETCH_COMMENTS_ERROR"), PgOutage)
            ELSE IF inflight[s].user = NoUser
              THEN FinishList(s, Response(200, NoCode), commentIds)
            ELSE /\ inflight' = [inflight EXCEPT ![s].pc = "likes", ![s].rows = commentIds]
                 /\ Silent
    /\ UNCHANGED store

\* comment_likes.select("comment_id").eq("user_id", ..).in("comment_id", commentIds):
\* its error is not looked at, and the list is the one already fetched
CommentsGET_Likes(s) ==
    /\ inflight[s].op = "comments_GET" /\ inflight[s].pc = "likes"
    /\ FinishList(s, Response(200, NoCode), inflight[s].rows)
    /\ UNCHANGED store

---------------------------------------------------------------------------
(* DELETE /api/posts/[postId] *)

\* A handler that lets any signed-in user delete a post.
IsPostOwner_Anyone(post_user_id, currentUserId) == TRUE

\* postData.user_id !== currentUserId
IsPostOwner(post_user_id, currentUserId) == post_user_id = currentUserId

PostsDELETE_Response(pg) ==
    IF pg # PgNone THEN Response(500, "DELETE_POST_ERROR") ELSE Response(200, NoCode)

PostsDELETE_Begin ==
    \E clerkUserId \in Callers, postId \in Named(PostIds) :
        LET pre == Prefix(clerkUserId, postId, "POST_ID_REQUIRED", TRUE)
            user == ResolveUser(clerkUserId)
        IN  /\ UNCHANGED store
            /\ IF pre.ok THEN Admit("posts_DELETE", user, postId, "select")
                         ELSE Reject("posts_DELETE", clerkUserId, postId, pre.resp)

\* select("id, user_id, image_url").eq("id", postId).single(), then the owner check
PostsDELETE_Select(s) ==
    /\ inflight[s].op = "posts_DELETE" /\ inflight[s].pc = "select"
    /\ \E dbUp \in BOOLEAN :
        LET postId == inflight[s].target
        IN  IF ~dbUp \/ ~PostExists(postId)
              THEN Finish(s, Response(404, "POST_NOT_FOUND"),
                          IF dbUp THEN PgNone ELSE PgOutage)
            ELSE IF ~IsPostOwner(PostRow(postId).user_id, inflight[s].user)
              THEN Finish(s, Response(403, "FORBIDDEN"), PgNone)
            ELSE LET storagePath == extractStoragePath(PostRow(postId).image_url)
                 IN  /\ inflight' = [inflight EXCEPT
                            ![s].pc = IF storagePath # NoId THEN "remove" ELSE "delete",
                            ![s].image = storagePath]
                     /\ Silent
    /\ UNCHANGED store

\* A handler that gives up when the image cannot be removed.
AfterStorageError_Return == "return"

\* if (storageError) { console.warn(..) }: the handler goes on to the row delete
AfterStorageError == "continue"

\* storage.from("posts").remove([storagePath]): a failure is logged and ignored
PostsDELETE_Remove(s) ==
    /\ inflight[s].op = "posts_DELETE" /\ inflight[s].pc = "remove"
    /\ \E storageUp \in BOOLEAN :
        /\ blobs' = IF storageUp THEN blobs \ {inflight[s].image} ELSE blobs
        /\ IF ~storageUp /\ AfterStorageError = "return"
             THEN Finish(s, Response(500, "DELETE_POST_ERROR"), StorageError)
             ELSE /\ inflight' = [inflight EXCEPT ![s].pc = "delete"]
                  /\ Silent
    /\ UNCHANGED <<posts, comments, likes, comment_likes, follows, sequence>>

\* posts.delete().eq("id", postId).eq("user_id", currentUserId), with the cascades
PostsDELETE_Delete(s) ==
    /\ inflight[s].op = "posts_DELETE" /\ inflight[s].pc = "delete"
    /\ \E dbUp \in BOOLEAN :
        LET postId == inflight[s].target
            pg == IF dbUp THEN PgNone ELSE PgOutage
            gone == IF pg = PgNone
                      THEN {p \in posts : p.id = postId /\ p.user_id = inflight[s].user}
                      ELSE {}
        IN  /\ posts' = posts \ gone
            /\ likes' = IF gone # {} THEN CascadeLikes(likes, postId) ELSE likes
            /\ comments' = IF gone # {} THEN CascadeComments(comments, postId) ELSE comments
            /\ comment_likes' = IF gone # {}
                                  THEN CascadeCommentLikes(comment_likes, CommentsOf(postId))
                                  ELSE comment_likes
            /\ Finish(s, PostsDELETE_Response(pg), pg)
    /\ UNCHANGED <<follows, blobs, sequence>>

---------------------------------------------------------------------------
(* POST /api/posts *)

MAX_FILE_SIZE == 5 * 1024 * 1024
ALLOWED_TYPES == {"image/jpeg", "image/png", "image/webp"}

\* formData.get("image") of the requests the model draws
Images ==
    {NoImage,
     [type |-> "image/gif", size |-> 1],
     [type |-> "image/png", size |-> MAX_FILE_SIZE + 1],
     [type |-> "image/jpeg", size |-> MAX_FILE_SIZE]}

\* The images of the requests of a behaviour: the session behaviours follow requests
\* with an image that passes the checks
Uploads == IF SignedIn THEN {[type |-> "image/jpeg", size |-> MAX_FILE_SIZE]} ELSE Images

\* const MAX_CAPTION_LENGTH = 2200 of CreatePostModal
MAX_CAPTION_LENGTH == 2200

\* setCaption(e.target.value.slice(0, MAX_CAPTION_LENGTH)): what the form of
\* CreatePostModal appends to its FormData for a text typed into it
CreatePostModal_caption(value) ==
    IF value.length > MAX_CAPTION_LENGTH THEN String(MAX_CAPTION_LENGTH, 0) ELSE value

\* formData.get("caption") of the requests the model draws: no field, an empty text,
\* texts at and above the length the form cuts at, sent by the form or by another
\* client of the route
Typed == {String(0, 0), String(5, 0), String(MAX_CAPTION_LENGTH, 0),
          String(MAX_CAPTION_LENGTH + 1, 0)}
Captions ==
    IF SignedIn THEN {String(5, 0)}
    ELSE {NoBody} \cup Typed \cup {CreatePostModal_caption(value) : value \in Typed}

\* A handler that turns away a caption above the length of the form.
PostsPOST_Checks_Caption(image, caption) ==
    IF image = NoImage \/ image.type \notin ALLOWED_TYPES \/ image.size > MAX_FILE_SIZE
         \/ caption.length > MAX_CAPTION_LENGTH
      THEN Rejected(400, NoCode)
    ELSE Passed

\* A handler that uploads whatever file it is sent.
PostsPOST_Checks_NoneOnImage(image, caption) ==
    IF image = NoImage THEN Rejected(400, NoCode) ELSE Passed

\* the checks of POST /api/posts: on the image only, the caption is not looked at
PostsPOST_Checks(image, caption) ==
    IF image = NoImage \/ image.type \notin ALLOWED_TYPES \/ image.size > MAX_FILE_SIZE
      THEN Rejected(400, NoCode)
    ELSE Passed

\* `${clerkUserId}/${timestamp}_${random}.${fileExt}`: a path no stored image and no
\* upload in flight carries
PathsInFlight == {inflight[s].image : s \in Slots} \ {NoId}
FreshPath ==
    CHOOSE path \in 1..MaxBlobs :
        /\ path \notin blobs \cup PathsInFlight
        /\ \A q \in 1..(path - 1) : q \in blobs \cup PathsInFlight

\* the paths the bucket can still take from the uploads in flight
PathsLeft ==
    MaxBlobs - Cardinality(blobs \cup PathsInFlight)
             - Cardinality({s \in Slots : inflight[s].pc = "upload"})

\* the post ids the store can still issue to the inserts in flight
PostIdsLeft ==
    MaxPosts - sequence - Cardinality({s \in Slots : inflight[s].op = "posts_POST"})

\* A handler that returns the failure of the insert at once.
AfterInsertError_Return == "return"

\* if (postError) { await supabase.storage.from("posts").remove([uploadData.path]); .. }
AfterInsertError == "rollback"

\* a step of slot s that returns resp with the storage paths it names
FinishPaths(s, resp, pg, paths) ==
    /\ last' = [Respond(inflight[s].op, ClerkIdOf(inflight[s].user), inflight[s].target,
                        resp, pg, inflight[s].body)
                  EXCEPT !.items = paths, !.file = inflight[s].file]
    /\ inflight' = [inflight EXCEPT ![s] = Idle]

\* An early return of POST /api/posts; the form data is parsed after auth() and the
\* users lookup
RejectFile(op, clerkUserId, resp, body, file) ==
    LET parsed == ResolveUser(clerkUserId) # NoUser
    IN  /\ last' = [Respond(op, clerkUserId, NoId, resp, PgNone,
                            IF parsed THEN body ELSE NoBody)
                      EXCEPT !.file = IF parsed THEN file ELSE NoImage]
        /\ UNCHANGED inflight

PostsPOST_Begin ==
    \E clerkUserId \in Callers, image \in Uploads, caption \in Captions :
        \* the request names no id: the prefix is auth() and the users lookup
        LET pre == Prefix(clerkUserId, 1, NoCode, FALSE)
            user == ResolveUser(clerkUserId)
            chk == IF pre.ok THEN PostsPOST_Checks(image, caption) ELSE pre
        IN  /\ UNCHANGED store
            /\ IF chk.ok THEN /\ PostIdsLeft > 0 /\ PathsLeft > 0
                              /\ AdmitFile("posts_POST", user, NoId, "upload", caption, image)
                         ELSE RejectFile("posts_POST", clerkUserId, chk.resp, caption, image)

\* storage.from("posts").upload(filePath, buffer, { upsert: false })
PostsPOST_Upload(s) ==
    /\ inflight[s].op = "posts_POST" /\ inflight[s].pc = "upload"
    /\ \E storageUp \in BOOLEAN :
        IF storageUp
          THEN /\ blobs' = blobs \cup {FreshPath}
               /\ inflight' = [inflight EXCEPT ![s].pc = "insert", ![s].image = FreshPath]
               /\ Silent
          ELSE /\ blobs' = blobs
               /\ Finish(s, Response(500, NoCode), StorageError)
    /\ UNCHANGED <<posts, comments, likes, comment_likes, follows, sequence>>

\* caption: caption || null
OrNull(caption) == IF ~caption.isString \/ caption.length = 0 THEN NoBody ELSE caption

\* posts.insert: REFERENCES users(id); caption TEXT carries no constraint
InsertPostError(user_id) == IF user_id \notin Users THEN PgForeignKey ELSE PgNone

\* posts.insert({ user_id: currentUserId, image_url: publicUrl, caption }), and the
\* return of the new row
PostsPOST_Insert(s) ==
    /\ inflight[s].op = "posts_POST" /\ inflight[s].pc = "insert"
    /\ \E dbUp \in BOOLEAN :
        LET pg == IF dbUp THEN InsertPostError(inflight[s].user) ELSE PgOutage
            row == [id |-> sequence + 1, user_id |-> inflight[s].user,
                    image_url |-> PublicUrl(inflight[s].image),
                    caption |-> OrNull(inflight[s].body)]
        IN  IF pg = PgNone
              THEN /\ posts' = posts \cup {row}
                   /\ sequence' = sequence + 1
                   /\ last' = [Respond("posts_POST", ClerkIdOf(inflight[s].user),
                                       row.id, Response(201, NoCode), pg, inflight[s].body)
                                 EXCEPT !.items = {inflight[s].image},
                                        !.file = inflight[s].file]
                   /\ inflight' = [inflight EXCEPT ![s] = Idle]
              ELSE /\ UNCHANGED <<posts, sequence>>
                   /\ IF AfterInsertError = "rollback"
                        THEN /\ inflight' = [inflight EXCEPT ![s].pc = "rollback"]
                             /\ Silent
                        ELSE FinishPaths(s, Response(500, NoCode), pg, {inflight[s].image})
    /\ UNCHANGED <<comments, likes, comment_likes, follows, blobs>>

\* storage.from("posts").remove([uploadData.path]), whose result is not looked at,
\* then the return of the failure
PostsPOST_Rollback(s) ==
    /\ inflight[s].op = "posts_POST" /\ inflight[s].pc = "rollback"
    /\ \E storageUp \in BOOLEAN :
        blobs' = IF storageUp THEN blobs \ {inflight[s].image} ELSE blobs
    /\ FinishPaths(s, Response(500, NoCode), PgOutage, {inflight[s].image})
    /\ UNCHANGED <<posts, comments, likes, comment_likes, follows, sequence>>

---------------------------------------------------------------------------
(* The mutation gateway: every route module that writes, each over its own  *)
(* store.  A behaviour follows the requests of one route module: the three  *)
(* of the engagement ledger, comments (over a post without comments), posts *)
(* (over an empty store) or posts/[postId] (over a post with a comment).    *)

InitGateway ==
    /\ route \in {"likes", "comment-likes", "follows", "comments", "posts", "posts/[postId]"}
    /\ posts = IF route = "posts"
                THEN {}
                ELSE {[id |-> 1, user_id |-> 1, image_url |-> PublicUrl(1),
                       caption |-> NoBody]}
    /\ blobs = IF route = "posts" THEN {} ELSE {1}
    /\ comments = IF route \in {"comments", "posts"}
                   THEN {}
                   ELSE {[id |-> 1, post_id |-> 1, user_id |-> 1, content |-> String(1, 0)]}
    /\ sequence = IF route \in {"comments", "posts"} THEN 0 ELSE 1
    /\ EmptyLedger
    /\ GatewayIdle
    /\ NoClient

NextGateway ==
    \/ NextEdge
    \/ Serve("comments", CommentsPOST_Begin)
    \/ Serve("comments", \E s \in Slots : CommentsPOST_Insert(s))
    \/ Serve("comments", CommentsDELETE_Begin)
    \/ Serve("comments", \E s \in Slots : CommentsDELETE_Select(s))
    \/ Serve("comments", \E s \in Slots : CommentsDELETE_Delete(s))
    \/ Serve("comments", CommentsGET_Begin)
    \/ Serve("comments", \E s \in Slots : CommentsGET_Select(s))
    \/ Serve("comments", \E s \in Slots : CommentsGET_Likes(s))
    \/ Serve("posts", PostsPOST_Begin)
    \/ Serve("posts", \E s \in Slots : PostsPOST_Upload(s))
    \/ Serve("posts", \E s \in Slots : PostsPOST_Insert(s))
    \/ Serve("posts", \E s \in Slots : PostsPOST_Rollback(s))
    \/ Serve("posts/[postId]", PostsDELETE_Begin)
    \/ Serve("posts/[postId]", \E s \in Slots : PostsDELETE_Select(s))
    \/ Serve("posts/[postId]", \E s \in Slots : PostsDELETE_Remove(s))
    \/ Serve("posts/[postId]", \E s \in Slots : PostsDELETE_Delete(s))

SpecGateway == InitGateway /\ [][NextGateway]_vars

---------------------------------------------------------------------------
(* Properties of the mutation gateway *)

\* C12: an image is in the bucket from the upload of its POST /api/posts until the
\* request returns; a POST /api/posts that returns a failure after its upload does so
\* in the step that issues the delete of its image, which adds no post row and, when
\* storage carries the delete out, leaves the image out of the bucket; no post row
\* references the image of a POST /api/posts that has failed.
C12_FailedInsertRemovesTheBlob ==
    /\ [](/\ \A s \in Slots :
                (inflight[s].op = "posts_POST" /\ inflight[s].pc \in {"insert", "rollback"})
                    => inflight[s].image \in blobs
          /\ (last.op = "posts_POST" /\ ~IsSuccess(last.status))
                => \A p \in posts : extractStoragePath(p.image_url) \notin last.items)
    /\ [][\A s \in Slots :
            (/\ inflight[s].op = "posts_POST" /\ inflight'[s].op = "idle"
             /\ inflight[s].image # NoId /\ ~IsSuccess(last'.status))
                => /\ inflight[s].pc = "rollback"
                   /\ posts' = posts
                   /\ blobs' \in {blobs, blobs \ {inflight[s].image}}
                   /\ last'.items = {inflight[s].image}]_vars

\* C12 witness: a POST /api/posts has uploaded its image, failed its insert and
\* returned 500 after the delete of the image: the bucket and the table are empty.
C12_Witness ==
    /\ last.op = "posts_POST" /\ last.status = 500 /\ last.pg = PgOutage
    /\ last.items # {}
    /\ blobs = {} /\ posts = {}

\* The file fails a check of POST /api/posts: none, a type outside jpeg/png/webp, or
\* more than 5MB
FailsValidation(file) ==
    file = NoImage \/ file.type \notin ALLOWED_TYPES \/ file.size > MAX_FILE_SIZE

\* C21: a POST /api/posts of a caller with a users row whose image is missing, of
\* another type than jpeg/png/webp or larger than 5MB is answered 400 in the step
\* that parses it, which writes no blob and no post row; no request with such an
\* image ever stands before the upload or the insert, and every step that adds a blob
\* or a post row is one of a request whose image passed the checks.
C21_InvalidImageStoresNothing ==
    /\ [](\A s \in Slots : inflight[s].op = "posts_POST" => ~FailsValidation(inflight[s].file))
    /\ [][/\ (/\ last'.op = "posts_POST" /\ last' # last
               /\ last'.user # NoUser /\ FailsValidation(last'.file))
                  => /\ last'.status = 400
                     /\ UNCHANGED <<store, inflight>>
          /\ (blobs' \ blobs # {} \/ posts' \ posts # {})
                  => \E s \in Slots : /\ StepOf(s) /\ inflight[s].op = "posts_POST"
                                      /\ ~FailsValidation(inflight[s].file)]_vars

\* C21 witness: after a post with its image has been created, a POST /api/posts with
\* a png of more than 5MB has been answered 400: one row, one blob.
C21_Witness ==
    /\ last.op = "posts_POST" /\ last.status = 400
    /\ last.file = [type |-> "image/png", size |-> MAX_FILE_SIZE + 1]
    /\ Cardinality(posts) = 1 /\ Cardinality(blobs) = 1

\* C22: the caption of every post row is absent or at most 2200 characters long.
C22_CaptionAtMost2200 ==
    \A p \in posts : p.caption = NoBody \/ p.caption.length <= MAX_CAPTION_LENGTH

MutationOps ==
    {"posts_POST", "posts_DELETE", "likes_POST", "likes_DELETE", "comment_likes_POST",
     "comment_likes_DELETE", "comments_POST", "comments_DELETE", "follows_POST",
     "follows_DELETE"}

\* C25: every failure a mutation route returns carries a code.
C25_EveryFailureCarriesACode ==
    (last.op \in MutationOps /\ last.status >= 400) => last.code # NoCode

\* C20: a mutation request without a principal is answered 401, one whose principal
\* has no users row is answered 404 (USER_NOT_FOUND where the route tags its errors);
\* the step that answers it writes nothing to the store or the bucket and admits no
\* request, and every mutation that is handled has a resolved user.
C20_UnauthorizedAndUserNotFound ==
    /\ [](/\ (last.op \in MutationOps /\ last.principal = NoPrincipal)
                => /\ last.status = 401
                   /\ last.code \in {"UNAUTHORIZED", NoCode}
          /\ (last.op \in MutationOps /\ last.principal # NoPrincipal
                                       /\ ResolveUser(last.principal) = NoUser)
                => /\ last.status = 404
                   /\ last.code \in {"USER_NOT_FOUND", NoCode}
          /\ \A s \in Slots : inflight[s].op \in MutationOps => inflight[s].user \in Users)
    /\ [][(last'.op \in MutationOps /\ last'.user = NoUser)
            => UNCHANGED <<store, inflight>>]_vars

\* C20 witness: a DELETE /api/posts/[postId] of a principal without a users row has
\* been answered 404 USER_NOT_FOUND, and the post, its comment and its image are there.
C20_Witness ==
    /\ last.op = "posts_DELETE" /\ last.principal = "k3"
    /\ last.status = 404 /\ last.code = "USER_NOT_FOUND"
    /\ PostExists(1) /\ CommentsOf(1) # {} /\ 1 \in blobs

\* content, after trimming, has between 1 and 1000 characters
TrimmedInRange(content) ==
    content.isString /\ content.trimmed >= 1 /\ content.trimmed <= MAX_COMMENT_LENGTH

\* C19: a POST /api/comments of a resolved user that names a post and is not failed by
\* the store is answered 201 exactly when its content, trimmed, has 1 to 1000
\* characters, and the row it inserted holds the trimmed content; otherwise it is
\* answered CONTENT_REQUIRED (no string, or empty after trim) or CONTENT_TOO_LONG (more
\* than 1000 characters after trim) and inserts nothing; every comment row holds a
\* content that is non-empty, equal to its trim and of at most 1000 characters.
C19_TrimmedContentDecides ==
    /\ \A c \in comments :
          /\ c.content.length >= 1 /\ c.content.length <= MAX_COMMENT_LENGTH
          /\ c.content = Trim(c.content)
    /\ (/\ last.op = "comments_POST" /\ last.user # NoUser /\ last.target # NoId
        /\ last.pg = PgNone)
          => IF TrimmedInRange(last.body)
               THEN /\ last.status = 201
                    /\ \E c \in comments : c.id = sequence /\ c.content = Trim(last.body)
             ELSE IF ~last.body.isString \/ last.body.trimmed = 0
               THEN last.status = 400 /\ last.code = "CONTENT_REQUIRED"
             ELSE last.status = 400 /\ last.code = "CONTENT_TOO_LONG"

---------------------------------------------------------------------------
(* GET /api/posts, query by query; GET /api/users/[userId] *)

RECURSIVE Sum(_, _)
Sum(table, keys) ==
    IF keys = {} THEN 0
    ELSE LET k == CHOOSE key \in keys : TRUE
         IN  table[k] + Sum(table, keys \ {k})

\* likes (id) embedded in the posts select: the likes rows of the post
LikesOf(post_id) == Sum(likes, {post_id} \X Users)

\* VIEW public.user_stats: COUNT(DISTINCT p.id), COUNT(DISTINCT f1.id), COUNT(DISTINCT f2.id)
user_stats(user_id) ==
    [user_id |-> user_id,
     posts_count |-> Cardinality({p \in posts : p.user_id = user_id}),
     followers_count |-> Sum(follows, Users \X {user_id}),
     following_count |-> Sum(follows, {user_id} \X Users)]

\* A handler that asks for the likes of the post's owner.
LikesViewer_Owner(currentUserId, post_user_id) == post_user_id

\* likes.select("post_id").eq("user_id", currentUserId)
LikesViewer(currentUserId, post_user_id) == currentUserId

\* GET /api/posts with the default limit and offset and no userId
PostsGET_Begin ==
    \E clerkUserId \in Callers :
        LET pre == Prefix(clerkUserId, 1, NoCode, FALSE)
            user == ResolveUser(clerkUserId)
        IN  /\ UNCHANGED store
            /\ IF pre.ok THEN Admit("posts_GET", user, NoId, "select")
                         ELSE Reject("posts_GET", clerkUserId, NoId, pre.resp)

\* posts.select("..., likes (id), comments (id)").order(..).range(0, 9): the model's
\* posts fit in the first page
PostsGET_Select(s) ==
    /\ inflight[s].op = "posts_GET" /\ inflight[s].pc = "select"
    /\ \E dbUp \in BOOLEAN :
        IF ~dbUp
          THEN Finish(s, Response(500, NoCode), PgOutage)
          ELSE /\ inflight' = [inflight EXCEPT
                      ![s].pc = "likes",
                      ![s].rows = {[id |-> p.id, user_id |-> p.user_id,
                                    likes_count |-> LikesOf(p.id)] : p \in posts}]
               /\ Silent
    /\ UNCHANGED store

\* likes.select("post_id").eq("user_id", currentUserId).in("post_id", postIds), whose
\* error is not looked at (userLikes?.map(..) || []), then the response
PostsGET_Likes(s) ==
    /\ inflight[s].op = "posts_GET" /\ inflight[s].pc = "likes"
    /\ \E dbUp \in BOOLEAN :
        LET likedPostIds ==
                IF dbUp
                  THEN {r.id : r \in {q \in inflight[s].rows :
                            likes[<<q.id, LikesViewer(inflight[s].user, q.user_id)>>] >= 1}}
                  ELSE {}
            views == {[id |-> r.id, likes_count |-> r.likes_count,
                       is_liked |-> r.id \in likedPostIds] : r \in inflight[s].rows}
        IN  FinishPaths(s, Response(200, NoCode), IF dbUp THEN PgNone ELSE PgOutage, views)
    /\ UNCHANGED store

\* GET /api/users/[userId]: a caller without a users row is served too
UsersGET_Begin ==
    \E clerkUserId \in Callers, userId \in Named(Users) :
        LET user == ResolveUser(clerkUserId)
        IN  /\ UNCHANGED store
            /\ IF clerkUserId = NoPrincipal
                 THEN Reject("users_GET", clerkUserId, userId, Response(401, NoCode))
               ELSE IF userId = NoId
                 THEN Reject("users_GET", clerkUserId, userId, Response(400, NoCode))
               ELSE Admit("users_GET", user, userId, "stats")

\* user_stats.select("*").eq("user_id", userId).single(); the follows query is made
\* for another user's profile only
UsersGET_Stats(s) ==
    /\ inflight[s].op = "users_GET" /\ inflight[s].pc = "stats"
    /\ \E dbUp \in BOOLEAN :
        LET userId == inflight[s].target
            stats == user_stats(userId)
        IN  IF ~dbUp \/ userId \notin Users
              THEN Finish(s, Response(404, NoCode), IF dbUp THEN PgNone ELSE PgOutage)
            ELSE IF inflight[s].user # NoUser /\ inflight[s].user # userId
              THEN /\ inflight' = [inflight EXCEPT ![s].pc = "follows", ![s].rows = {stats}]
                   /\ Silent
            ELSE FinishPaths(s, Response(200, NoCode), PgNone,
                             {[stats |-> stats, is_following |-> FALSE]})
    /\ UNCHANGED store

\* follows.select("id").eq("follower_id", currentUserId).eq("following_id", userId)
\* .single(), whose error is not looked at
UsersGET_Follows(s) ==
    /\ inflight[s].op = "users_GET" /\ inflight[s].pc = "follows"
    /\ \E dbUp \in BOOLEAN :
        LET isFollowing == dbUp /\ follows[<<inflight[s].user, inflight[s].target>>] >= 1
        IN  FinishPaths(s, Response(200, NoCode), IF dbUp THEN PgNone ELSE PgOutage,
                        {[stats |-> r, is_following |-> isFollowing] : r \in inflight[s].rows})
    /\ UNCHANGED store

---------------------------------------------------------------------------
(* A session of the two users over a store without posts: they create a     *)
(* post, like and unlike it, and read the feed and the profiles.            *)

InitSession ==
    /\ posts = {} /\ blobs = {} /\ comments = {} /\ sequence = 0
    /\ EmptyLedger
    /\ GatewayIdle
    /\ NoClient
    /\ route = "session"

NextSession ==
    \/ Serve("session", PostsPOST_Begin)
    \/ Serve("session", \E s \in Slots : PostsPOST_Upload(s))
    \/ Serve("session", \E s \in Slots : PostsPOST_Insert(s))
    \/ Serve("session", \E s \in Slots : PostsPOST_Rollback(s))
    \/ Serve("session", LikesPOST_Begin)
    \/ Serve("session", \E s \in Slots : LikesPOST_Insert(s))
    \/ Serve("session", LikesDELETE_Begin)
    \/ Serve("session", \E s \in Slots : LikesDELETE_Delete(s))
    \/ Serve("session", PostsGET_Begin)
    \/ Serve("session", \E s \in Slots : PostsGET_Select(s))
    \/ Serve("session", \E s \in Slots : PostsGET_Likes(s))
    \/ Serve("session", UsersGET_Begin)
    \/ Serve("session", \E s \in Slots : UsersGET_Stats(s))
    \/ Serve("session", \E s \in Slots : UsersGET_Follows(s))

SpecSession == InitSession /\ [][NextSession]_vars

---------------------------------------------------------------------------
(* Properties of the session *)

\* The view of a post that an answered read holds
ViewsOf(post_id) == {v \in last.items : v.id = post_id}

\* C11: the insert of a POST /api/posts raises the author's posts_count in user_stats
\* by one, and a profile read returns the posts_count of user_stats; a like that is
\* answered with success leaves one likes row of (post, user), an unlike none; a
\* GET /api/posts whose two queries are answered returns for every post is_liked =
\* whether the viewer's likes row exists, and likes_count = the number of the post's
\* likes rows when no like of the post was committed between its two queries.
C11_CountsFollowTheStore ==
    [][\A s \in Slots : StepOf(s) =>
         /\ (inflight[s].op = "posts_POST" /\ last'.status = 201)
               => \A u \in Users :
                     user_stats(u)'.posts_count =
                        user_stats(u).posts_count + IF u = inflight[s].user THEN 1 ELSE 0
         /\ (inflight[s].op = "users_GET" /\ inflight[s].pc = "stats"
                                          /\ last'.status = 200)
               => \A r \in last'.items :
                     r.stats.posts_count = user_stats(inflight[s].target).posts_count
         /\ (inflight[s].op = "likes_POST" /\ IsSuccess(last'.status))
               => /\ likes'[<<inflight[s].target, inflight[s].user>>] = 1
                  /\ \A p \in PostIds :
                        LikesOf(p)' = LikesOf(p) + IF p = inflight[s].target THEN 1 ELSE 0
         /\ (inflight[s].op = "likes_DELETE" /\ IsSuccess(last'.status))
               => likes'[<<inflight[s].target, inflight[s].user>>] = 0
         /\ (inflight[s].op = "posts_GET" /\ inflight[s].pc = "likes"
                                          /\ last'.pg = PgNone)
               => /\ last'.status = 200
                  /\ {v.id : v \in last'.items} = {r.id : r \in inflight[s].rows}
                  /\ \A v \in last'.items :
                        /\ v.is_liked = (likes[<<v.id, inflight[s].user>>] >= 1)
                        /\ (\A r \in inflight[s].rows :
                                r.id = v.id => r.likes_count = LikesOf(v.id))
                              => v.likes_count = LikesOf(v.id)]_vars

\* C11 witness: user 1 has created post 1, user 2 has liked it, and user 1 has just
\* read the feed: the post has likes_count = 1 and is not liked by the viewer.
C11_Witness ==
    /\ last.op = "posts_GET" /\ last.user = 1 /\ last.status = 200
    /\ PostExists(1) /\ PostRow(1).user_id = 1
    /\ likes[<<1, 2>>] = 1 /\ likes[<<1, 1>>] = 0
    /\ ViewsOf(1) = {[id |-> 1, likes_count |-> 1, is_liked |-> FALSE]}

\* C18: every view a GET /api/posts returns holds the likes_count and the is_liked of
\* one state of the likes table; in particular a view with is_liked = true has
\* likes_count >= 1.
C18_ViewIsOneSnapshot ==
    (last.op = "posts_GET" /\ last.status = 200) =>
        \A v \in last.items : v.is_liked => v.likes_count >= 1

---------------------------------------------------------------------------
(* The content store: the post, comment, like and comment-like routes over a *)
(* store that holds one post of user 1 with its image.                       *)

InitContent ==
    /\ posts = {[id |-> 1, user_id |-> 1, image_url |-> PublicUrl(1), caption |-> NoBody]}
    /\ blobs = {1}
    /\ comments = {}
    /\ sequence = 0
    /\ EmptyLedger
    /\ GatewayIdle
    /\ NoClient
    /\ route = "content"

NextContent ==
    \/ Serve("content", CommentsPOST_Begin)
    \/ Serve("content", \E s \in Slots : CommentsPOST_Insert(s))
    \/ Serve("content", CommentsDELETE_Begin)
    \/ Serve("content", \E s \in Slots : CommentsDELETE_Select(s))
    \/ Serve("content", \E s \in Slots : CommentsDELETE_Delete(s))
    \/ Serve("content", CommentsGET_Begin)
    \/ Serve("content", \E s \in Slots : CommentsGET_Select(s))
    \/ Serve("content", \E s \in Slots : CommentsGET_Likes(s))
    \/ Serve("content", PostsDELETE_Begin)
    \/ Serve("content", \E s \in Slots : PostsDELETE_Select(s))
    \/ Serve("content", \E s \in Slots : PostsDELETE_Remove(s))
    \/ Serve("content", \E s \in Slots : PostsDELETE_Delete(s))
    \/ Serve("content", LikesPOST_Begin)
    \/ Serve("content", \E s \in Slots : LikesPOST_Insert(s))
    \/ Serve("content", CommentLikesPOST_Begin)
    \/ Serve("content", \E s \in Slots : CommentLikesPOST_Insert(s))

SpecContent == InitContent /\ [][NextContent]_vars

---------------------------------------------------------------------------
(* Properties of the content store *)

\* Every row that references a post or a comment references an existing one
ReferencesResolve ==
    /\ \A k \in DOMAIN likes : likes[k] > 0 => PostExists(k[1])
    /\ \A c \in comments : PostExists(c.post_id)
    /\ \A k \in DOMAIN comment_likes : comment_likes[k] > 0 => CommentExists(k[1])

\* C7: once DELETE /api/posts/[postId] has answered with success the post is gone, and
\* in every state no likes or comments row references a post that is gone and no
\* comment_likes row a comment that is gone; a GET /api/comments that queries the
\* comments of a post that is gone answers 200 with an empty list (unless the store
\* itself fails the query).
C7_CascadeThenEmptyRead ==
    /\ [](/\ ReferencesResolve
          /\ (last.op = "posts_DELETE" /\ IsSuccess(last.status))
                => ~PostExists(last.target))
    /\ [][\A s \in Slots :
            /\ (/\ inflight[s].op = "comments_GET" /\ inflight[s].pc = "select"
                /\ StepOf(s) /\ ~PostExists(inflight[s].target) /\ last'.pg # PgOutage)
                  => \/ last'.status = 200 /\ last'.items = {}
                     \/ inflight'[s].pc = "likes" /\ inflight'[s].rows = {}
            /\ (inflight[s].op = "comments_GET" /\ inflight[s].pc = "likes" /\ StepOf(s))
                  => last'.status = 200 /\ last'.items = inflight[s].rows]_vars

\* C7 witness: comments had been written, the post is gone, and a read of its comments
\* has just been answered 200 with an empty list.
C7_Witness ==
    /\ last.op = "comments_GET" /\ last.target = 1
    /\ last.status = 200 /\ last.items = {}
    /\ posts = {} /\ sequence >= 1 /\ comments = {}

\* The DELETE /api/comments of a caller who is not the comment's author is answered 403
\* FORBIDDEN and changes nothing in the store (while the store answers the lookup).
NonAuthorIsForbidden ==
    \A s \in Slots :
        (/\ inflight[s].op = "comments_DELETE" /\ inflight[s].pc = "select" /\ StepOf(s)
         /\ CommentExists(inflight[s].target)
         /\ CommentRow(inflight[s].target).user_id # inflight[s].user
         /\ last'.pg # PgOutage)
            => /\ last'.status = 403 /\ last'.code = "FORBIDDEN"
               /\ UNCHANGED store

\* A read of a post's comments fetches every comment row of the post
ReadIncludesEveryRow ==
    \A s \in Slots :
        (/\ inflight[s].op = "comments_GET" /\ inflight[s].pc = "select" /\ StepOf(s)
         /\ last'.pg # PgOutage)
            => \/ last'.status = 200 /\ last'.items = CommentsOf(inflight[s].target)
               \/ inflight'[s].pc = "likes"
                    /\ inflight'[s].rows = CommentsOf(inflight[s].target)

\* C8 (as stated): a non-author's DELETE /api/comments is answered FORBIDDEN and leaves
\* the store unchanged, a following read includes the comment, and every step that
\* removes a comment row is a step of a request whose user is the comment's user_id.
C8_RemovedOnlyByAuthorRequest ==
    [][/\ NonAuthorIsForbidden
       /\ ReadIncludesEveryRow
       /\ \A c \in comments \ comments' :
             \E s \in Slots : StepOf(s) /\ inflight[s].user = c.user_id]_vars

\* C8 (amended): a non-author's DELETE /api/comments is answered FORBIDDEN and leaves
\* the store unchanged, a following read includes the comment, and every step that
\* removes a comment row is a step of a DELETE /api/comments of the comment's author or
\* of a DELETE /api/posts/[postId] of the owner of the comment's post (the cascade).
C8_RemovedByAuthorOrCascade ==
    [][/\ NonAuthorIsForbidden
       /\ ReadIncludesEveryRow
       /\ \A c \in comments \ comments' :
             \E s \in Slots :
                /\ StepOf(s)
                /\ \/ /\ inflight[s].op = "comments_DELETE"
                      /\ inflight[s].target = c.id
                      /\ inflight[s].user = c.user_id
                   \/ /\ inflight[s].op = "posts_DELETE"
                      /\ inflight[s].target = c.post_id
                      /\ inflight[s].user = PostRow(c.post_id).user_id]_vars

\* C8 witness: a caller who is not its author has just been refused the deletion of a
\* comment that carries a comment like, and the comment and its like are there.
C8_Witness ==
    /\ last.op = "comments_DELETE" /\ last.status = 403
    /\ CommentExists(last.target)
    /\ CommentRow(last.target).user_id # last.user
    /\ comment_likes[<<last.target, last.user>>] = 1

\* C9: a DELETE /api/posts/[postId] of a caller who is not the post's owner is answered
\* 403 FORBIDDEN and no step of it changes the posts, likes, comments, comment_likes or
\* the stored image; for a post that does not exist it is answered 404 POST_NOT_FOUND;
\* every step that removes a post row is a step of a DELETE /api/posts/[postId] whose
\* user is the post's user_id.
C9_OnlyOwnerDeletesPost ==
    [][/\ \A s \in Slots :
            (inflight[s].op = "posts_DELETE" /\ StepOf(s)) =>
                /\ (inflight[s].pc = "select" /\ ~PostExists(inflight[s].target))
                      => /\ last'.status = 404 /\ last'.code = "POST_NOT_FOUND"
                         /\ UNCHANGED store
                /\ (/\ PostExists(inflight[s].target)
                    /\ PostRow(inflight[s].target).user_id # inflight[s].user)
                      => /\ UNCHANGED store
                         /\ last'.pg # PgOutage
                               => last'.status = 403 /\ last'.code = "FORBIDDEN"
       /\ \A p \in posts \ posts' :
             \E s \in Slots : /\ StepOf(s)
                              /\ inflight[s].op = "posts_DELETE"
                              /\ inflight[s].target = p.id
                              /\ inflight[s].user = p.user_id]_vars

\* C9 witness: user 2 has just been refused the deletion of user 1's post, which still
\* has its like, its comment and its image.
C9_Witness ==
    /\ last.op = "posts_DELETE" /\ last.status = 403 /\ last.user = 2
    /\ PostExists(last.target) /\ PostRow(last.target).user_id = 1
    /\ likes[<<last.target, 2>>] = 1
    /\ CommentsOf(last.target) # {}
    /\ extractStoragePath(PostRow(last.target).image_url) \in blobs

\* C23: the remove of the image in a DELETE /api/posts/[postId] of the post's owner
\* returns no response, whether storage carries it out or fails: the request goes on
\* to the row delete; and a row delete the store carries out is answered 200 with the
\* post row, its likes, its comments and their likes gone, the image still in the
\* bucket or not.
C23_BlobDeletionIsBestEffort ==
    [][\A s \in Slots : (inflight[s].op = "posts_DELETE" /\ StepOf(s)) =>
          /\ inflight[s].pc = "remove"
                => /\ inflight'[s] = [inflight[s] EXCEPT !.pc = "delete"]
                   /\ last' = NoRequest
                   /\ posts' = posts
          /\ (inflight[s].pc = "delete" /\ last'.pg = PgNone)
                => /\ last'.status = 200
                   /\ ~(\E p \in posts' : p.id = inflight[s].target)
                   /\ \A u \in Users : likes'[<<inflight[s].target, u>>] = 0
                   /\ \A c \in comments' : c.post_id # inflight[s].target]_vars

\* C23 witness: the owner's DELETE /api/posts/[postId] has been answered 200 for a post
\* that had a comment; the post and the comment are gone and the image, whose remove
\* failed, is still in the bucket.
C23_Witness ==
    /\ last.op = "posts_DELETE" /\ last.status = 200 /\ last.user = 1 /\ last.target = 1
    /\ posts = {} /\ comments = {} /\ sequence >= 1
    /\ blobs = {1}

\* C28: the image of every post row is in the bucket, except while a
\* DELETE /api/posts/[postId] of that post stands between the remove of the image and
\* the delete of the row.
C28_EveryPostHasItsBlob ==
    \A p \in posts :
        \/ extractStoragePath(p.image_url) \in blobs
        \/ \E s \in Slots : /\ inflight[s].op = "posts_DELETE" /\ inflight[s].pc = "delete"
                             /\ inflight[s].target = p.id

---------------------------------------------------------------------------
(* GET /api/posts *)

MaxFeedPosts == 11
MaxLimit == 2

DefaultLimit == 10
DefaultOffset == 0
NoParam == -1
NoOffset == -1

FeedPostIds == 1..MaxFeedPosts

\* searchParams.get(name) || fallback, then parseInt
ParseParam(param, fallback) == IF param = NoParam THEN fallback ELSE param

\* the rows the query is over: all posts, or those of the userId parameter
Matching(userId) == IF userId = NoUser THEN posts ELSE {p \in posts : p.user_id = userId}

\* .order("created_at", { ascending: false }): the sequences of the rows in which
\* created_at never increases; the order among rows of equal created_at is not
\* fixed by the query and is the store's choice, query by query
RECURSIVE Orderings(_)
Orderings(rows) ==
    IF rows = {} THEN {<<>>}
    ELSE LET newest == {r \in rows : \A q \in rows : q.created_at <= r.created_at}
         IN  UNION {{<<r>> \o t : t \in Orderings(rows \ {r})} : r \in newest}

\* .range(offset, offset + limit - 1)
Range(rows, offset, limit) ==
    SubSeq(rows, offset + 1, IF offset + limit < Len(rows) THEN offset + limit ELSE Len(rows))

\* A paginator that reports one more page when the page read ends at the last row.
HasMore_Inclusive(count, offset, limit) ==
    IF count = 0 THEN FALSE ELSE offset + limit <= count

\* count ? offset + limit < count : false
HasMore(count, offset, limit) ==
    IF count = 0 THEN FALSE ELSE offset + limit < count

\* Texts are sequences of characters; a character outside ASCII is written by its
\* code point.
\* { error: "Unauthorized" }, 401
Unauthorized ==
    <<"U", "n", "a", "u", "t", "h", "o", "r", "i", "z", "e", "d">>

\* { error: "User not found in database" }, 404
UserNotFoundInDatabase ==
    <<"U", "s", "e", "r", " ", "n", "o", "t", " ", "f", "o", "u", "n", "d", " ", "i",
      "n", " ", "d", "a", "t", "a", "b", "a", "s", "e">>

\* { error: "Failed to fetch posts", details }, 500
FailedToFetchPosts ==
    <<"F", "a", "i", "l", "e", "d", " ", "t", "o", " ", "f", "e", "t", "c", "h", " ",
      "p", "o", "s", "t", "s">>

\* { error: "Internal server error" }, 500, of the catch block
InternalServerError ==
    <<"I", "n", "t", "e", "r", "n", "a", "l", " ", "s", "e", "r", "v", "e", "r", " ",
      "e", "r", "r", "o", "r">>

\* the message of the TypeError a fetch without a response is rejected with
FailedToFetch ==
    <<"F", "a", "i", "l", "e", "d", " ", "t", "o", " ", "f", "e", "t", "c", "h">>

\* the load-failure text of PostFeed (Hangul)
LoadFailedText ==
    <<"U+AC8C", "U+C2DC", "U+BB3C", "U+C744", " ", "U+BD88", "U+B7EC", "U+C624",
      "U+B294", "U+B370", " ", "U+C2E4", "U+D328", "U+D588", "U+C2B5", "U+B2C8",
      "U+B2E4">>

\* the network-connectivity text of PostFeed (Hangul)
NetworkText ==
    <<"U+B124", "U+D2B8", "U+C6CC", "U+D06C", " ", "U+C5F0", "U+ACB0", "U+C744", " ",
      "U+D655", "U+C778", "U+D574", "U+C8FC", "U+C138", "U+C694">>

fetch ==
    <<"f", "e", "t", "c", "h">>
network ==
    <<"n", "e", "t", "w", "o", "r", "k">>
NetworkError ==
    <<"N", "e", "t", "w", "o", "r", "k", "E", "r", "r", "o", "r">>

\* setError(null)
NoError == <<>>

\* String.prototype.includes
Includes(text, searchString) ==
    \E i \in 0..(Len(text) - Len(searchString)) :
        SubSeq(text, i + 1, i + Len(searchString)) = searchString

\* new Error(message); the TypeError of a rejected fetch
Error(message) == [name |-> "Error", message |-> message]
TypeError(message) == [name |-> "TypeError", message |-> message]

\* A test that looks at the class of the error only.
isNetworkError_ByName(error) == error.name = "TypeError"

\* isNetworkError of api-utils.ts
isNetworkError(error) ==
    \/ Includes(error.message, fetch)
    \/ Includes(error.message, network)
    \/ Includes(error.message, NetworkError)
    \/ error.name = "TypeError"

\* errorData.error || (the load-failure text)
ErrorMessageOf(errorData) == IF errorData.error = <<>> THEN LoadFailedText ELSE errorData.error

\* the catch block of loadMorePosts: the text it passes to setError
PostFeed_catch(err) == IF isNetworkError(err) THEN NetworkText ELSE err.message

PostsResponse(postsData, count, offset, limit) ==
    LET hasMore == HasMore(count, offset, limit)
    IN  [status |-> 200,
         posts |-> [i \in 1..Len(postsData) |-> postsData[i].id],
         has_more |-> hasMore,
         next_offset |-> IF hasMore THEN offset + limit ELSE NoOffset,
         offset |-> offset, limit |-> limit, error |-> NoError]

PostsError(status, error, offset, limit) ==
    [status |-> status, posts |-> <<>>, has_more |-> FALSE, next_offset |-> NoOffset,
     offset |-> offset, limit |-> limit, error |-> error]

\* The handler; no route writes while the feed is read, so its two queries see one
\* store and the handler is one step.  ordered is the store's answer to the order
\* clause, up is whether the store answers the query at all.
PostsGET(clerkUserId, limitParam, offsetParam, userId, up, ordered) ==
    LET limit == ParseParam(limitParam, DefaultLimit)
        offset == ParseParam(offsetParam, DefaultOffset)
    IN  IF clerkUserId = NoPrincipal THEN PostsError(401, Unauthorized, offset, limit)
        ELSE IF ResolveUser(clerkUserId) = NoUser
          THEN PostsError(404, UserNotFoundInDatabase, offset, limit)
        ELSE IF ~up THEN PostsError(500, FailedToFetchPosts, offset, limit)
        ELSE PostsResponse(Range(ordered, offset, limit), Len(ordered), offset, limit)

\* the response as the latest step's output
FeedAnswer(clerkUserId, userId, resp) ==
    [op |-> "posts_GET", user |-> ResolveUser(clerkUserId), target |-> userId,
     status |-> resp.status, code |-> NoCode,
     pg |-> IF resp.status = 500 THEN PgOutage ELSE PgNone,
     items |-> resp.posts, has_more |-> resp.has_more, next_offset |-> resp.next_offset,
     offset |-> resp.offset, limit |-> resp.limit, error |-> resp.error]

\* A caller of the route with its own query string.  The handler keeps nothing from
\* one call to the next and the store is fixed, so a behaviour follows one call.
PostsGET_Call ==
    /\ last = NoRequest
    /\ \E clerkUserId \in Principals \cup {NoPrincipal},
          limitParam \in (1..MaxLimit) \cup {NoParam},
          offsetParam \in (0..MaxFeedPosts + 1) \cup {NoParam},
          userId \in Users \cup {NoUser}, up \in BOOLEAN :
        \E ordered \in Orderings(Matching(userId)) :
            last' = FeedAnswer(clerkUserId, userId,
                        PostsGET(clerkUserId, limitParam, offsetParam, userId, up, ordered))

---------------------------------------------------------------------------
(* HomePage and the PostFeed component *)

PageSize == 10

\* data.next_offset || offset
OrElse(value, fallback) == IF value = NoOffset \/ value = 0 THEN fallback ELSE value

\* HomePage: the first page, read on the server, becomes the props of PostFeed
HomePage ==
    /\ feed.stage = "unmounted"
    /\ \E clerkUserId \in Principals \cup {NoPrincipal}, up \in BOOLEAN,
          ordered \in Orderings(posts) :
        LET limit == PageSize
            offset == 0
            hasMore == HasMore(Len(ordered), offset, limit)
            postsData == Range(ordered, offset, limit)
        IN  feed' = IF clerkUserId = NoPrincipal
                      THEN [stage |-> "redirected"]
                    ELSE IF ResolveUser(clerkUserId) = NoUser \/ ~up
                      THEN [stage |-> "failed"]
                      ELSE [stage |-> "mounted",
                            posts |-> [i \in 1..Len(postsData) |-> postsData[i].id],
                            hasMore |-> hasMore,
                            offset |-> IF hasMore THEN offset + limit ELSE 0,
                            isLoading |-> FALSE,
                            error |-> NoError]
    /\ Silent

\* loadMorePosts up to its fetch, called by the IntersectionObserver
PostFeed_loadMorePosts ==
    /\ feed.stage = "mounted"
    /\ ~feed.isLoading /\ feed.hasMore
    /\ feed' = [feed EXCEPT !.isLoading = TRUE, !.error = NoError]
    /\ Silent

\* loadMorePosts from the answer of its fetch on: the route handles
\* GET /api/posts?limit=10&offset=<offset> and the component takes the page in
PostFeed_loadMorePosts_Settle ==
    /\ feed.stage = "mounted"
    /\ feed.isLoading
    /\ \E transport \in BOOLEAN, clerkUserId \in {"k1", NoPrincipal}, up \in BOOLEAN,
          thrown \in BOOLEAN, ordered \in Orderings(posts) :
        LET handled == PostsGET(clerkUserId, PageSize, feed.offset, NoUser, up, ordered)
            \* the catch block of the route: the handler threw
            data == IF thrown
                      THEN PostsError(500, InternalServerError, handled.offset, handled.limit)
                      ELSE handled
            err == IF transport THEN Error(ErrorMessageOf(data))
                                ELSE TypeError(FailedToFetch)
        IN  /\ last' = IF transport THEN FeedAnswer(clerkUserId, NoUser, data)
                                    ELSE NoRequest
            /\ feed' = IF transport /\ IsSuccess(data.status)
                         THEN [feed EXCEPT !.posts = feed.posts \o data.posts,
                                           !.hasMore = data.has_more,
                                           !.offset = OrElse(data.next_offset, feed.offset),
                                           !.isLoading = FALSE]
                         ELSE [feed EXCEPT !.error = PostFeed_catch(err),
                                           !.isLoading = FALSE]

---------------------------------------------------------------------------
(* The feed: a fixed set of posts, read through the route by a caller with its *)
(* own query string, or by HomePage and PostFeed's load-more loop.            *)

\* The posts of a feed: n posts written one after the other by the two users; the
\* posts tied and tied + 1 (if tied > 0) carry the same created_at
FeedPosts(n, tied) ==
    {[id |-> i, user_id |-> 1 + (i % 2), image_url |-> PublicUrl(i),
      created_at |-> IF tied > 0 /\ i = tied + 1 THEN tied ELSE i] : i \in 1..n}

InitFeed ==
    /\ \E n \in 0..MaxFeedPosts, tied \in 0..MaxFeedPosts :
          /\ tied = 0 \/ tied < n
          /\ posts = FeedPosts(n, tied)
    /\ blobs = {} /\ comments = {} /\ sequence = 0
    /\ EmptyLedger
    /\ GatewayIdle
    /\ NoClient
    /\ route \in {"api/posts", "PostFeed"}

\* A step of the feed: the store and the gateway's slots stay as they are
Browse(r, step) == route = r /\ step /\ UNCHANGED <<store, inflight, ui, route>>

NextFeed ==
    \/ Browse("api/posts", PostsGET_Call /\ UNCHANGED feed)
    \/ Browse("PostFeed", HomePage)
    \/ Browse("PostFeed", PostFeed_loadMorePosts)
    \/ Browse("PostFeed", PostFeed_loadMorePosts_Settle)

SpecFeed == InitFeed /\ [][NextFeed]_vars

---------------------------------------------------------------------------
(* Properties of the feed *)

CreatedAt(post_id) == (CHOOSE p \in posts : p.id = post_id).created_at

\* C5: when PostFeed's load-more loop has come to has_more = false, the list it has
\* accumulated holds every post of the store exactly once, in created_at descending
\* order.
C5_FeedHoldsEveryPostOnce ==
    (feed.stage = "mounted" /\ ~feed.hasMore /\ ~feed.isLoading) =>
        /\ Len(feed.posts) = Cardinality(posts)
        /\ {feed.posts[i] : i \in DOMAIN feed.posts} = {p.id : p \in posts}
        /\ \A i, j \in DOMAIN feed.posts :
              i < j => CreatedAt(feed.posts[i]) >= CreatedAt(feed.posts[j])

C24_NetworkTextIffNoResponse ==
    (feed.stage = "mounted" /\ feed.error # NoError) =>
        /\ (feed.error = NetworkText) <=> (last = NoRequest)
        /\ last # NoRequest => feed.error = ErrorMessageOf(last)

---------------------------------------------------------------------------
(* The feed while posts are written: HomePage and PostFeed's load-more loop *)
(* read a store to which other users add posts.  No two posts carry the     *)
(* same created_at here.                                                    *)

MaxNewPosts == 2

InitScroll ==
    /\ \E n \in 0..MaxFeedPosts : posts = FeedPosts(n, 0)
    /\ blobs = {} /\ comments = {} /\ sequence = 0
    /\ EmptyLedger
    /\ GatewayIdle
    /\ NoClient
    /\ route = "PostFeed, posts"

\* The insert of a POST /api/posts by a user: created_at DEFAULT now() is later than
\* that of every row of the table
PostsPOST_InsertNow ==
    /\ route = "PostFeed, posts"
    /\ Cardinality(posts) < MaxFeedPosts + MaxNewPosts
    /\ \E user_id \in Users :
          LET id == Cardinality(posts) + 1
          IN  posts' = posts \cup {[id |-> id, user_id |-> user_id,
                                    image_url |-> PublicUrl(id), created_at |-> id]}
    /\ UNCHANGED <<comments, likes, comment_likes, follows, blobs, sequence, inflight,
                   last, feed, ui, route>>

NextScroll ==
    \/ Browse("PostFeed, posts", HomePage)
    \/ Browse("PostFeed, posts", PostFeed_loadMorePosts)
    \/ Browse("PostFeed, posts", PostFeed_loadMorePosts_Settle)
    \/ PostsPOST_InsertNow

SpecScroll == InitScroll /\ [][NextScroll]_vars

\* C29: the list PostFeed has accumulated holds no post id twice.
C29_NoPostTwice ==
    feed.stage = "mounted" =>
        \A i, j \in DOMAIN feed.posts : i # j => feed.posts[i] # feed.posts[j]

---------------------------------------------------------------------------
(* The optimistic controls: LikeButton in PostCard, FollowButton in         *)
(* ProfileHeader, the like toggle of CommentList.  The fetch of a control   *)
(* settles in one of three ways: response.ok, a response that is not ok,    *)
(* or a rejected fetch.                                                     *)

MaxCount == 2
MaxClicks == 3

Outcomes == {"ok", "not ok", "rejected"}

Pair(state, count) == [state |-> state, count |-> count]

\* What the session has seen of the control: the pair on screen when the last click
\* was taken, the fetches issued and the clicks taken so far, how the last fetch ended,
\* the clicks that returned at the in-flight check, the fetches that have settled
Seen(accepted, fetches, clicks, handled, ignored, settled) ==
    [accepted |-> accepted, fetches |-> fetches, clicks |-> clicks, handled |-> handled,
     ignored |-> ignored, settled |-> settled]

\* A handler without the in-flight check.
AlreadyProcessing_Never(flag) == FALSE

\* if (isProcessing) return; if (isLoading) return; if (likingComments.has(commentId)) return
AlreadyProcessing(flag) == flag

\* the click returned at the in-flight check
Ignored == [ui EXCEPT !.seen.ignored = @ + 1]

Max0(n) == IF n < 0 THEN 0 ELSE n

\* A catch block that puts back the liked flag only.
LikeButton_catch_FlagOnly(previousState, shown) ==
    Pair(previousState.state, shown.count)

\* setIsLiked(previousStateRef.current.isLiked);
\* setLikesCount(previousStateRef.current.likesCount)
LikeButton_catch(previousState, shown) == previousState

\* LikeButton.handleLike up to its fetch; PostCard.handleLikeChange is called with the
\* new pair
LikeButton_handleLike ==
    /\ ui.control = "LikeButton"
    /\ ui.seen.clicks + ui.seen.ignored < MaxClicks
    /\ LET newIsLiked == ~ui.isLiked
           newLikesCount == IF newIsLiked THEN ui.likesCount + 1 ELSE ui.likesCount - 1
       IN  ui' = IF AlreadyProcessing(ui.isProcessing) THEN Ignored ELSE
                 [ui EXCEPT
                    !.isProcessing = TRUE,
                    !.previousState = Pair(ui.isLiked, ui.likesCount),
                    !.isLiked = newIsLiked,
                    !.likesCount = newLikesCount,
                    !.PostCard = Pair(newIsLiked, newLikesCount),
                    !.method = IF newIsLiked THEN "POST" ELSE "DELETE",
                    !.seen = Seen(Pair(ui.isLiked, ui.PostCard.count),
                                  ui.seen.fetches + 1, ui.seen.clicks + 1, "none",
                                  ui.seen.ignored, ui.seen.settled)]

\* PostCard.handleDoubleTap: nothing if the post is liked, else LikeButton.handleLike
PostCard_handleDoubleTap ==
    /\ ui.control = "LikeButton"
    /\ IF ui.PostCard.state THEN UNCHANGED ui ELSE LikeButton_handleLike

\* LikeButton.handleLike from the answer of its fetch on: the try block passes when
\* response.ok, else the catch block runs; the finally block clears isProcessing
LikeButton_handleLike_Then(outcome) ==
    /\ ui.control = "LikeButton"
    /\ ui.method # "none"
    /\ LET restored == LikeButton_catch(ui.previousState, Pair(ui.isLiked, ui.likesCount))
       IN  ui' = IF outcome = "ok"
                   THEN [ui EXCEPT !.isProcessing = FALSE, !.method = "none",
                                   !.seen.handled = "ok", !.seen.settled = @ + 1]
                   ELSE [ui EXCEPT !.isLiked = restored.state,
                                   !.likesCount = restored.count,
                                   !.PostCard = restored,
                                   !.isProcessing = FALSE, !.method = "none",
                                   !.seen.handled = "failed", !.seen.settled = @ + 1]

\* The fetch of the control settles in any of the three ways
LikeButton_handleLike_Settle == \E outcome \in Outcomes : LikeButton_handleLike_Then(outcome)

\* FollowButton.handleToggle up to its fetch
FollowButton_handleToggle ==
    /\ ui.control = "FollowButton"
    /\ ui.seen.clicks + ui.seen.ignored < MaxClicks
    /\ LET newState == ~ui.isFollowing
       IN  ui' = IF AlreadyProcessing(ui.isLoading) THEN Ignored ELSE
                 [ui EXCEPT
                    !.isLoading = TRUE,
                    !.previousState = ui.isFollowing,
                    !.isFollowing = newState,
                    !.method = IF newState THEN "POST" ELSE "DELETE",
                    !.seen = Seen(Pair(ui.isFollowing, ui.ProfileHeader.count),
                                  ui.seen.fetches + 1, ui.seen.clicks + 1, "none",
                                  ui.seen.ignored, ui.seen.settled)]

\* ProfileHeader.handleFollowToggle(newState)
ProfileHeader_handleFollowToggle(header, newState) ==
    Pair(newState, IF newState THEN header.count + 1 ELSE Max0(header.count - 1))

\* FollowButton.handleToggle from the answer of its fetch on
FollowButton_handleToggle_Settle ==
    /\ ui.control = "FollowButton"
    /\ ui.method # "none"
    /\ \E outcome \in Outcomes :
        ui' = IF outcome = "ok"
                THEN [ui EXCEPT !.ProfileHeader =
                                    ProfileHeader_handleFollowToggle(ui.ProfileHeader,
                                                                     ui.isFollowing),
                                !.isLoading = FALSE, !.method = "none",
                                !.seen.handled = "ok", !.seen.settled = @ + 1]
                ELSE [ui EXCEPT !.isFollowing = ui.previousState,
                                !.isLoading = FALSE, !.method = "none",
                                !.seen.handled = "failed", !.seen.settled = @ + 1]

\* CommentList.handleLikeToggle up to its fetch, for the one comment on screen
CommentList_handleLikeToggle ==
    /\ ui.control = "CommentList"
    /\ ui.seen.clicks + ui.seen.ignored < MaxClicks
    /\ LET isLiked == ui.comment.state
           previousLikesCount == ui.comment.count
       IN  ui' = IF AlreadyProcessing(ui.liking) THEN Ignored ELSE
                 [ui EXCEPT
                    !.liking = TRUE,
                    !.previousState = Pair(isLiked, previousLikesCount),
                    !.comment = Pair(~isLiked,
                                     IF isLiked THEN Max0(previousLikesCount - 1)
                                                ELSE previousLikesCount + 1),
                    !.method = IF isLiked THEN "DELETE" ELSE "POST",
                    !.seen = Seen(ui.comment, ui.seen.fetches + 1, ui.seen.clicks + 1,
                                  "none", ui.seen.ignored, ui.seen.settled)]

\* CommentList.handleLikeToggle from the answer of its fetch on
CommentList_handleLikeToggle_Settle ==
    /\ ui.control = "CommentList"
    /\ ui.method # "none"
    /\ \E outcome \in Outcomes :
        ui' = IF outcome = "ok"
                THEN [ui EXCEPT !.liking = FALSE, !.method = "none",
                                !.seen.handled = "ok", !.seen.settled = @ + 1]
                ELSE [ui EXCEPT !.comment = ui.previousState,
                                !.liking = FALSE, !.method = "none",
                                !.seen.handled = "failed", !.seen.settled = @ + 1]

\* useEffect on initialComments: PostCard's list changed (its first load arrived, a
\* comment was added), and CommentList takes PostCard's copy of the comment
CommentList_initialComments ==
    /\ ui.control = "CommentList"
    /\ ui' = [ui EXCEPT !.comment = ui.initialComment, !.seen.handled = "none"]

---------------------------------------------------------------------------
(* A control on screen: its first pair is the one the read returned.  The   *)
(* flag and the count of a read come from two queries (the rows with their  *)
(* likes, then the viewer's own likes), so a set flag can come with any     *)
(* count, 0 included.                                                       *)

Mounted(control, state, count) ==
    CASE control = "LikeButton" ->
           [control |-> control, isLiked |-> state, likesCount |-> count,
            isProcessing |-> FALSE, previousState |-> Pair(state, count),
            PostCard |-> Pair(state, count), method |-> "none",
            seen |-> Seen(Pair(state, count), 0, 0, "none", 0, 0)]
      [] control = "FollowButton" ->
           [control |-> control, isFollowing |-> state, isLoading |-> FALSE,
            previousState |-> state, ProfileHeader |-> Pair(state, count),
            method |-> "none", seen |-> Seen(Pair(state, count), 0, 0, "none", 0, 0)]
      [] control = "CommentList" ->
           [control |-> control, comment |-> Pair(state, count),
            initialComment |-> Pair(state, count), liking |-> FALSE,
            previousState |-> Pair(state, count), method |-> "none",
            seen |-> Seen(Pair(state, count), 0, 0, "none", 0, 0)]

InitUI ==
    /\ posts = {[id |-> 1, user_id |-> 1, image_url |-> PublicUrl(1), caption |-> NoBody]}
    /\ blobs = {1}
    /\ comments = {[id |-> 1, post_id |-> 1, user_id |-> 1, content |-> String(1, 0)]}
    /\ sequence = 1
    /\ EmptyLedger
    /\ GatewayIdle
    /\ feed = NoFeed
    /\ route = "components"
    /\ \E control \in {"LikeButton", "FollowButton", "CommentList"},
          state \in BOOLEAN, count \in 0..MaxCount :
          /\ ui = Mounted(control, state, count)

\* A step of a component: the store, the gateway and the feed stay as they are
Render(step) == step /\ UNCHANGED <<store, inflight, last, feed, route>>

NextUI ==
    \/ Render(LikeButton_handleLike)
    \/ Render(PostCard_handleDoubleTap)
    \/ Render(LikeButton_handleLike_Settle)
    \/ Render(FollowButton_handleToggle)
    \/ Render(FollowButton_handleToggle_Settle)
    \/ Render(CommentList_handleLikeToggle)
    \/ Render(CommentList_handleLikeToggle_Settle)
    \/ Render(CommentList_initialComments)

SpecUI == InitUI /\ [][NextUI]_vars

---------------------------------------------------------------------------
(* Properties of the optimistic controls *)

\* The pair on screen: the heart of LikeButton with the count PostCard prints, the
\* label of FollowButton with the followers count ProfileHeader prints, the heart and
\* the count of the comment
Displayed ==
    CASE ui.control = "LikeButton" -> Pair(ui.isLiked, ui.PostCard.count)
      [] ui.control = "FollowButton" -> Pair(ui.isFollowing, ui.ProfileHeader.count)
      [] ui.control = "CommentList" -> ui.comment

Outstanding == ui.seen.fetches - ui.seen.settled

C17_CountsNeverNegative ==
    CASE ui.control = "LikeButton" -> ui.likesCount >= 0 /\ ui.PostCard.count >= 0
      [] ui.control = "FollowButton" -> ui.ProfileHeader.count >= 0
      [] ui.control = "CommentList" -> ui.comment.count >= 0

---------------------------------------------------------------------------
(* A LikeButton on screen with the likes route behind it.  The fetch of     *)
(* handleLike is a request of POST or DELETE /api/likes by the session's    *)
(* user for the post of the control; the control settles on the response    *)
(* the route returns, or on a rejected fetch when the request or the        *)
(* response is lost on the way.                                             *)

\* The control was rendered from a read of the feed: its pair is the one of the store
InitLike ==
    /\ posts = {[id |-> 1, user_id |-> 1, image_url |-> PublicUrl(1), caption |-> NoBody]}
    /\ blobs = {1}
    /\ comments = {}
    /\ sequence = 0
    /\ likes \in [PostIds \X Users -> 0..1]
    /\ comment_likes = [k \in CommentIds \X Users |-> 0]
    /\ follows = [k \in Users \X Users |-> 0]
    /\ GatewayIdle
    /\ feed = NoFeed
    /\ route = "LikeButton"
    /\ \E clerkUserId \in Callers, postId \in PostIds :
          ui = Mounted("LikeButton", likes[<<postId, ResolveUser(clerkUserId)>>] >= 1,
                       LikesOf(postId))
                 @@ [postId |-> postId, clerkUserId |-> clerkUserId]

\* fetch("/api/likes", { method, body: JSON.stringify({ post_id: postId }) }): the
\* request reaches the route, which runs up to its first store statement
LikeButton_fetch ==
    /\ ui.control = "LikeButton"
    /\ GatewayIdle
    /\ CASE ui.method = "POST" -> LikesPOST_Begin
         [] ui.method = "DELETE" -> LikesDELETE_Begin
         [] OTHER -> FALSE
    /\ \E s \in Slots :
          /\ inflight'[s].op # "idle"
          /\ inflight'[s].user = ResolveUser(ui.clerkUserId)
          /\ inflight'[s].target = ui.postId
    /\ UNCHANGED <<route, feed, ui>>

\* await fetch(..) returns or throws: the response of the route arrives and is ok or
\* not ok by its status, or the fetch is rejected, the request or the response lost
LikeButton_response ==
    /\ \A s \in Slots : inflight[s] = Idle
    /\ \E outcome \in Outcomes :
          /\ outcome # "rejected" =>
                /\ last.op \in {"likes_POST", "likes_DELETE"}
                /\ outcome = IF IsSuccess(last.status) THEN "ok" ELSE "not ok"
          /\ LikeButton_handleLike_Then(outcome)
    /\ last' = NoRequest
    /\ UNCHANGED <<store, inflight, feed, route>>

NextLike ==
    \/ Render(LikeButton_handleLike)
    \/ Render(PostCard_handleDoubleTap)
    \/ LikeButton_fetch
    \/ Serve("LikeButton", \E s \in Slots : LikesPOST_Insert(s))
    \/ Serve("LikeButton", \E s \in Slots : LikesDELETE_Delete(s))
    \/ LikeButton_response

SpecLike == InitLike /\ [][NextLike]_vars

---------------------------------------------------------------------------
(* Properties of the control with its route *)

\* The likes row of the session's user on the post of the control
Liked == likes[<<ui.postId, ResolveUser(ui.clerkUserId)>>] >= 1

\* The control takes the response of a store that is up: a success as ok, anything
\* else as a failure
ResponseTaken ==
    /\ ui.method # "none" /\ ui'.method = "none"
    /\ last.op \in {"likes_POST", "likes_DELETE"}
    /\ last.pg # PgOutage
    /\ IsSuccess(last.status) => ui'.seen.handled = "ok"

\* C16: whatever clicks, successes, failures and lost responses came before, when the
\* control has taken the response of a request that a working store served, and so
\* has no request in flight, the is_liked it displays equals the existence of the
\* likes row of (post, viewer).
C16_DisplayedReflectsTheServer ==
    [][ResponseTaken => (ui'.isLiked = Liked')]_vars

\* The control shows the post as not liked, has no request in flight, and the likes
\* row exists
ShownUnlikedWhileLiked == ui.method = "none" /\ ~ui.isLiked /\ Liked

\* From a control that shows not liked while the row exists, every further click ends
\* with the same display and the same row.
ShownUnlikedWhileLiked_Stays ==
    [][ShownUnlikedWhileLiked => (ui'.method = "none" => ShownUnlikedWhileLiked')]_vars

---------------------------------------------------------------------------
(* A PostCard with its CommentList and its CommentForm.  PostCard holds the  *)
(* comments it loaded and passes them to CommentList as initialComments;    *)
(* CommentList holds its own copy, which its like toggles and its deletes   *)
(* change; PostCard's copy changes when a comment is added or a delete has  *)
(* succeeded, and the effect on initialComments then replaces CommentList's *)
(* copy.  A list is a function from the ids of its comments to their        *)
(* (is_liked, likes_count); the order of the comments plays no part.        *)

MaxListed == 3

ListedIds == 1..MaxListed

\* prev.filter((c) => c.id !== commentId)
Without(list, commentId) == [c \in DOMAIN list \ {commentId} |-> list[c]]

\* prev.map((c) => c.id === commentId ? { ...c, is_liked, likes_count } : c)
With(list, commentId, pair) ==
    [c \in DOMAIN list |-> IF c = commentId THEN pair ELSE list[c]]

\* The PostCard after its comments have loaded: two comments, CommentList's copy equal
\* to PostCard's
InitComments ==
    /\ posts = {[id |-> 1, user_id |-> 1, image_url |-> PublicUrl(1), caption |-> NoBody]}
    /\ blobs = {1}
    /\ comments = {}
    /\ sequence = 0
    /\ EmptyLedger
    /\ GatewayIdle
    /\ feed = NoFeed
    /\ route = "PostCard"
    /\ \E loaded \in [{1, 2} -> {Pair(FALSE, 0), Pair(TRUE, 1)}] :
          ui = [control |-> "PostCard",
                PostCard |-> loaded,
                comments |-> loaded,
                isDeleting |-> NoId,
                previousComments |-> loaded,
                likingComments |-> {},
                toggled |-> [c \in ListedIds |-> Pair(FALSE, 0)],
                handled |-> [c \in ListedIds |-> "none"],
                sequence |-> 2,
                clicks |-> 0]

\* useEffect(() => setComments(sorted initialComments), [initialComments]): PostCard's
\* list has changed to list, and CommentList takes it
initialComments_effect(list) == [ui EXCEPT !.PostCard = list, !.comments = list]

\* handleLikeToggle up to its fetch
handleLikeToggle(commentId) ==
    /\ ui.clicks < MaxClicks
    /\ commentId \notin ui.likingComments
    /\ commentId \in DOMAIN ui.comments
    /\ LET isLiked == ui.comments[commentId].state
           previousLikesCount == ui.comments[commentId].count
       IN  ui' = [ui EXCEPT
                    !.likingComments = @ \cup {commentId},
                    !.comments = With(@, commentId,
                                      Pair(~isLiked,
                                           IF isLiked THEN Max0(previousLikesCount - 1)
                                                      ELSE previousLikesCount + 1)),
                    !.toggled[commentId] = Pair(isLiked, previousLikesCount),
                    !.handled[commentId] = "none",
                    !.clicks = @ + 1]

\* handleLikeToggle from the answer of its fetch on
handleLikeToggle_Settle(commentId) ==
    /\ commentId \in ui.likingComments
    /\ \E outcome \in Outcomes :
        ui' = IF outcome = "ok"
                THEN [ui EXCEPT !.likingComments = @ \ {commentId},
                                !.handled[commentId] = "ok"]
                ELSE [ui EXCEPT !.comments = With(@, commentId, ui.toggled[commentId]),
                                !.likingComments = @ \ {commentId},
                                !.handled[commentId] = "failed"]

\* A handler that takes the deleted comment only back into the list.
handleDelete_catch_OneComment(previousComments, shown, commentId) ==
    [c \in DOMAIN shown \cup {commentId} |->
        IF c = commentId THEN previousComments[c] ELSE shown[c]]

\* setComments(previousComments)
handleDelete_catch(previousComments, shown, commentId) == previousComments

\* handleDelete up to its fetch
handleDelete(commentId) ==
    /\ ui.clicks < MaxClicks
    /\ ui.isDeleting = NoId
    /\ commentId \in DOMAIN ui.comments
    /\ ui' = [ui EXCEPT !.isDeleting = commentId,
                        !.previousComments = ui.comments,
                        !.comments = Without(@, commentId),
                        !.clicks = @ + 1]

\* PostCard.handleCommentDeleted, then the effect of CommentList
handleCommentDeleted(commentId) ==
    initialComments_effect(Without(ui.PostCard, commentId))

\* handleDelete from the answer of its fetch on
handleDelete_Settle ==
    /\ ui.isDeleting # NoId
    /\ \E outcome \in Outcomes :
        ui' = IF outcome = "ok"
                THEN [handleCommentDeleted(ui.isDeleting) EXCEPT !.isDeleting = NoId]
                ELSE [ui EXCEPT !.comments = handleDelete_catch(ui.previousComments,
                                                                ui.comments, ui.isDeleting),
                                !.isDeleting = NoId]

\* PostCard.handleCommentAdded with the comment CommentForm has created, then the
\* effect of CommentList
handleCommentAdded ==
    LET newComment == ui.sequence + 1
    IN  /\ newComment \in ListedIds
        /\ ui' = [initialComments_effect((newComment :> Pair(FALSE, 0)) @@ ui.PostCard)
                    EXCEPT !.sequence = newComment]

NextComments ==
    \/ Render(\E commentId \in ListedIds : handleLikeToggle(commentId))
    \/ Render(\E commentId \in ListedIds : handleLikeToggle_Settle(commentId))
    \/ Render(\E commentId \in ListedIds : handleDelete(commentId))
    \/ Render(handleDelete_Settle)
    \/ Render(handleCommentAdded)

SpecComments == InitComments /\ [][NextComments]_vars

---------------------------------------------------------------------------
(* Properties of the comment list *)

\* C26: when the fetch of handleDelete for comment c has failed and c is put back,
\* every other comment of the list is shown with the is_liked and likes_count it had
\* just before.
C26_RollbackKeepsOtherComments ==
    [][(/\ ui.isDeleting # NoId /\ ui'.isDeleting = NoId
        /\ ui.isDeleting \in DOMAIN ui'.comments)
          => \A d \in DOMAIN ui.comments \ {ui.isDeleting} :
                d \in DOMAIN ui'.comments /\ ui'.comments[d] = ui.comments[d]]_vars

\* C27: when PostCard's list changes (a comment added, a comment deleted) and
\* CommentList takes it as initialComments, a comment that stays in the list, whose
\* last like toggle succeeded and which has no toggle in flight, is shown with the
\* same is_liked and likes_count as before.
C27_ResyncKeepsToggledLikes ==
    [][ui'.PostCard # ui.PostCard
          => \A c \in DOMAIN ui.comments \cap DOMAIN ui'.comments :
                (ui.handled[c] = "ok" /\ c \notin ui.likingComments)
                    => ui'.comments[c] = ui.comments[c]]_vars

---------------------------------------------------------------------------
(* LikeButton under its parent.  PostCard holds (isLiked, likesCount) from  *)
(* the post of the feed and renders LikeButton at once.  PostModal holds    *)
(* (false, 0) at first and sets its pair in its load effect: from           *)
(* initialPost when PostGrid passes one, else from the post its fetch of    *)
(* /api/posts/[postId] returns.  LikeButton takes initialIsLiked and        *)
(* initialLikesCount as the initial values of its own state, when it        *)
(* mounts.  The field PostCard of the control holds the parent's pair:      *)
(* handleLikeChange is the same two setters in PostCard and in PostModal.   *)

\* initialPost || null
NoInitialPost == [present |-> FALSE, is_liked |-> FALSE, likes_count |-> 0]

InitialPost(is_liked, likes_count) ==
    [present |-> TRUE, is_liked |-> is_liked, likes_count |-> likes_count]

\* LikeButton with useState(initialIsLiked), useState(initialLikesCount) under a parent
\* that holds the pair held; post is whether the parent's post is set
LikeButtonUnder(parent, held, initialPost, post) ==
    [control |-> "LikeButton", isLiked |-> held.state, likesCount |-> held.count,
     isProcessing |-> FALSE, previousState |-> held, PostCard |-> held,
     method |-> "none", seen |-> Seen(held, 0, 0, "none", 0, 0),
     parent |-> parent, initialPost |-> initialPost, post |-> post,
     isLoading |-> FALSE,
     effect |-> IF parent = "PostModal" THEN "pending" ELSE "done"]

\* PostCard: useState(post.is_liked || false), useState(post.likes_count)
PostCard_useState(is_liked, likes_count) ==
    LikeButtonUnder("PostCard", Pair(is_liked, likes_count), NoInitialPost, TRUE)

\* PostModal: useState(initialPost || null), useState(0), useState(false)
PostModal_useState(initialPost) ==
    LikeButtonUnder("PostModal", Pair(FALSE, 0), initialPost, initialPost.present)

\* PostModal returns its loading text while isLoading or while post is null; past
\* these it renders LikeButton
LikeButton_rendered == ui.post /\ ~ui.isLoading

\* The first render of the parent, before its effects run
InitModal ==
    /\ posts = {[id |-> 1, user_id |-> 1, image_url |-> PublicUrl(1), caption |-> NoBody]}
    /\ blobs = {1}
    /\ comments = {}
    /\ sequence = 0
    /\ EmptyLedger
    /\ GatewayIdle
    /\ feed = NoFeed
    /\ route = "PostModal"
    /\ \E is_liked \in BOOLEAN, likes_count \in 0..MaxCount :
          \/ ui = PostCard_useState(is_liked, likes_count)
          \/ ui = PostModal_useState(InitialPost(is_liked, likes_count))
          \/ ui = PostModal_useState(NoInitialPost)

\* PostModal's load effect: with initialPost the setters take its values and loadPost
\* is not called; without it loadPost sets isLoading and fetches the post
PostModal_useEffect ==
    /\ ui.control = "LikeButton"
    /\ ui.effect = "pending"
    /\ ui' = IF ui.initialPost.present
               THEN [ui EXCEPT !.post = TRUE,
                               !.PostCard = Pair(ui.initialPost.is_liked,
                                                 ui.initialPost.likes_count),
                               !.isLoading = FALSE,
                               !.effect = "done"]
               ELSE [ui EXCEPT !.isLoading = TRUE, !.effect = "loadPost"]

\* loadPost from the answer of its fetch on: response.ok sets post and the pair from
\* data.post, and the finally block clears isLoading in the same render, so
\* LikeButton mounts with the fetched pair; otherwise post stays null
PostModal_loadPost ==
    /\ ui.control = "LikeButton"
    /\ ui.effect = "loadPost"
    /\ \E outcome \in Outcomes, is_liked \in BOOLEAN, likes_count \in 0..MaxCount :
          ui' = IF outcome = "ok"
                  THEN [ui EXCEPT !.post = TRUE,
                                  !.PostCard = Pair(is_liked, likes_count),
                                  !.isLiked = is_liked,
                                  !.likesCount = likes_count,
                                  !.previousState = Pair(is_liked, likes_count),
                                  !.isLoading = FALSE,
                                  !.effect = "done"]
                  ELSE [ui EXCEPT !.isLoading = FALSE, !.effect = "done"]

NextModal ==
    \/ Render(PostModal_useEffect)
    \/ Render(PostModal_loadPost)
    \/ Render(LikeButton_rendered /\ LikeButton_handleLike)
    \/ Render(LikeButton_rendered /\ PostCard_handleDoubleTap)
    \/ Render(LikeButton_rendered /\ LikeButton_handleLike_Settle)

SpecModal == InitModal /\ [][NextModal]_vars

\* C30: in PostCard and in PostModal, whenever LikeButton is on screen and no like
\* request is in flight, the (isLiked, likesCount) LikeButton holds and shows equals
\* the (isLiked, likesCount) its parent holds, also right after PostModal has set its
\* own state from initialPost or from a fetched post.
C30_ButtonEqualsParent ==
    (LikeButton_rendered /\ ui.method = "none")
        => Pair(ui.isLiked, ui.likesCount) = ui.PostCard

\* The same under PostCard, and under PostModal when the post was fetched.
C30_ButtonEqualsParent_NoInitialPost ==
    ~ui.initialPost.present => C30_ButtonEqualsParent

\* PostModal has fetched its post, LikeButton is on screen and a like has settled
C30_FetchedAndLiked ==
    /\ ui.parent = "PostModal" /\ ~ui.initialPost.present
    /\ LikeButton_rendered /\ ui.method = "none" /\ ui.seen.settled > 0

====
